---------------------------- MODULE Spec2Model ----------------------------
(***************************************************************************)
(* tinyPortMapper (Rust): the single-threaded forwarding core.             *)
(*                                                                         *)
(* One variable per field of EventLoop (src/src/event/mod.rs:95-108) that  *)
(* the handlers touch, the process-wide TrafficStats, the clock read by    *)
(* get_current_time, and the part of the operating system the handlers     *)
(* talk to (the descriptor table and the poller's registrations).  Every   *)
(* handler is an operator from a state record to a state record, so that   *)
(* a handler calling another handler (on_write -> on_read) is a function   *)
(* application; an action applies one handler to the current state under   *)
(* one choice of the results the system calls return.                      *)
(***************************************************************************)
EXTENDS Integers, Sequences, FiniteSets, TLC

(***************************************************************************)
(* Bounds of the model and the configuration it runs under.                *)
(***************************************************************************)
MaxFd64 == 4          \* handles FdManager hands out in one run
BufSize == 2          \* Config.socket_buf_size, in bytes
MaxBytes == 3         \* bytes the peers offer per protocol in one run
MaxBytesBoth == 1     \* the same, in the runs with both listeners and the clock
MaxTicks == 2         \* steps of the clock in one run
TickMs == 600         \* milliseconds between two readings of the clock
MaxConnections == 1   \* --max-connections
TimeoutSec == 1       \* --tcp-timeout and --udp-timeout, in seconds
MaxFaults == 1        \* system calls that fail or would block in one run
MaxFaultsBoth == 0      \* the same, in the runs with both listeners and the clock
MaxFd64Loop == 2      \* handles in the runs with a failing poll and of the session table alone
MaxThreads == 2       \* threads that call into a manager at the same time
MaxInstant == 21000   \* Instant::now() at the end of a run of the timer, milliseconds
MaxEntries == 3       \* entries of the min_heap of the LruCollector run on its own
MaxCalls == 4         \* calls into FdManager, and of erase, in a run of a manager alone

(***************************************************************************)
(* Program constants.                                                      *)
(***************************************************************************)
TIMER_INTERVAL_MS == 400
CONN_CLEAR_INTERVAL_MS == 1000
DEFAULT_CONN_CLEAR_RATIO == 30
DEFAULT_CONN_CLEAR_MIN == 1
STATS_INTERVAL_MS == 10000
TcpListenFd == 1      \* raw descriptor of the TCP listener
UdpListenFd == 2      \* raw descriptor of the UDP listener
ListenFd64 == 0       \* Fd64(0), the handle both listeners are registered under

StartTime == 2 * CONN_CLEAR_INTERVAL_MS
MaxTime == StartTime + MaxTicks * TickMs
NoFd == 0 - 1         \* Option::None of a raw descriptor
NoKey == 0 - 1        \* Option::None of a handle

Fd64s == 1..MaxFd64
RawFds == 1..(MaxFd64 + 4)
Clients == {"c1", "c2"}          \* UDP client addresses

VARIABLES
    fd_manager,       \* FdManager: fd_to_fd64, fd64_to_fd, fd_info, counter
    token_manager,    \* TokenManager: fd64_to_token, token_to_fd64, counter
    tcp_manager,      \* TcpConnectionManager: connections, lru, last_clear_time
    udp_manager,      \* UdpSessionManager: sessions, fd64_to_addr, lru, last_clear_time
    stats,            \* TrafficStats::global()
    poll,             \* the poller: raw descriptor -> [token, interest]
    os_fds,           \* the raw descriptors the process holds open
    config,           \* Config: the fields the core reads
    now,              \* get_current_time(), milliseconds
    last_clear_time,  \* EventLoop::run's local last_clear_time
    listen_socket,    \* EventLoop.listen_socket: the two listener tokens
    phase,            \* "new" | "running" | "panicked" | "returned" | "shutdown"
    flow,             \* history: per flow and side, bytes received and bytes sent on
    faults,           \* history: system calls that failed or would have blocked
    last,             \* history: the handler that ran last and how it ended
    closed_registered,\* history: descriptors the last handler closed while registered
    callers,          \* the threads calling into FdManager: call, position, locals
    registry_log,     \* history: what the calls into FdManager returned
    timer,            \* Timer: entries; Instant::now(); history: callbacks executed
    collector,        \* an LruCollector: values, access_times, time_list, min_heap
    addr              \* an Address, the calls made on it and what they returned

vars == <<fd_manager, token_manager, tcp_manager, udp_manager, stats, poll, os_fds,
          config, now, last_clear_time, listen_socket, phase, flow, faults, last,
          closed_registered, callers, registry_log, timer, collector, addr>>

\* The forwarder, without the components that are also exercised on their own.
Forwarder ==
    <<fd_manager, token_manager, tcp_manager, udp_manager, stats, poll, os_fds, config, now,
      last_clear_time, listen_socket, phase, flow, faults, last, closed_registered, callers,
      registry_log>>

(***************************************************************************)
(* Maps (HashMap) as functions.                                            *)
(***************************************************************************)
EmptyMap == [x \in {} |-> 0]
Put(f, k, v) == [x \in (DOMAIN f) \cup {k} |-> IF x = k THEN v ELSE f[x]]
Del(f, k) == [x \in (DOMAIN f) \ {k} |-> f[x]]
DelAll(f, K) == [x \in (DOMAIN f) \ K |-> f[x]]
Min(a, b) == IF a < b THEN a ELSE b

(***************************************************************************)
(* The operating system's descriptor table: socket() and accept() return   *)
(* the lowest descriptor that is not open.                                 *)
(***************************************************************************)
LowestFree(open) ==
    CHOOSE r \in RawFds : r \notin open /\ \A q \in RawFds : q < r => q \in open

(***************************************************************************)
(* FdManager (src/src/fd_manager.rs).                                      *)
(***************************************************************************)
FdManagerNew ==
    [fd_to_fd64 |-> EmptyMap, fd64_to_fd |-> EmptyMap, fd_info |-> EmptyMap, counter |-> 1]

FdCreate(fm, raw_fd, create_time) ==
    [fd_to_fd64 |-> Put(fm.fd_to_fd64, raw_fd, fm.counter),
     fd64_to_fd |-> Put(fm.fd64_to_fd, fm.counter, raw_fd),
     fd_info    |-> Put(fm.fd_info, fm.counter, create_time),
     counter    |-> fm.counter + 1]

FdGetOrCreate(fm, raw_fd, create_time) ==
    IF raw_fd \in DOMAIN fm.fd_to_fd64 THEN fm ELSE FdCreate(fm, raw_fd, create_time)

FdGetOrCreateResult(fm, raw_fd) ==
    IF raw_fd \in DOMAIN fm.fd_to_fd64 THEN fm.fd_to_fd64[raw_fd] ELSE fm.counter

FdToFd(fm, fd64) == IF fd64 \in DOMAIN fm.fd64_to_fd THEN fm.fd64_to_fd[fd64] ELSE NoFd

\* An exist that asks the activity records.
FdExistByInfo(fm, fd64) == fd64 \in DOMAIN fm.fd_info

FdExist(fm, fd64) == fd64 \in DOMAIN fm.fd64_to_fd

FdClose(fm, fd64) ==
    IF fd64 \in DOMAIN fm.fd64_to_fd
    THEN [fm EXCEPT !.fd64_to_fd = Del(@, fd64),
                    !.fd_to_fd64 = DelAll(@, {r \in DOMAIN @ : @[r] = fd64}),
                    !.fd_info = Del(@, fd64)]
    ELSE fm

(***************************************************************************)
(* FdManager under concurrent callers.  FdManager is shared as Arc<Self>   *)
(* and each map sits behind its own RwLock, so a call is a sequence of     *)
(* steps, one per stretch of code that runs under the same locks; steps of *)
(* different threads interleave.  The counter is an AtomicU64: fetch_add   *)
(* wraps after 2^64 calls, which no run gets near.                         *)
(***************************************************************************)
Threads == 1..MaxThreads
ListenFds == {TcpListenFd, UdpListenFd}

Idle == [op |-> "none", pc |-> "idle", raw_fd |-> NoFd, fd64 |-> NoKey, ret |-> NoFd]

\* A counter that stands still.
FetchAddStuck(counter) == counter

\* Fd64(self.counter.fetch_add(1, Ordering::Relaxed)): the counter after the call
FetchAdd(counter) == counter + 1

\* fd_to_fd64.insert(raw_fd, fd64); fd64_to_fd.insert(fd64, raw_fd);
\* fd_info.insert(fd64, FdInfo::new(create_time)), the three write locks held
FdInsert(fm, raw_fd, fd64, create_time) ==
    [fm EXCEPT !.fd_to_fd64 = Put(@, raw_fd, fd64),
               !.fd64_to_fd = Put(@, fd64, raw_fd),
               !.fd_info = Put(@, fd64, create_time)]

\* get_or_create, lines 111-114 and 125-127: the descriptor has a handle
FdLookup(fm, raw_fd) == IF raw_fd \in DOMAIN fm.fd_to_fd64 THEN fm.fd_to_fd64[raw_fd] ELSE NoKey

\* A second lookup that never finds anything.
DoubleCheckSkipped(fm, raw_fd) == NoKey

\* if let Some(existing) = fd_to_fd64.get(&raw_fd), under the write locks
DoubleCheck(fm, raw_fd) == FdLookup(fm, raw_fd)

FdExistInfo(fm, fd64) == fd64 \in DOMAIN fm.fd_info

\* A close that finds the descriptor through the reverse map.
CloseTakeByRawFd(fm, fd64) ==
    IF \E r \in DOMAIN fm.fd_to_fd64 : fm.fd_to_fd64[r] = fd64
    THEN CHOOSE r \in DOMAIN fm.fd_to_fd64 : fm.fd_to_fd64[r] = fd64
    ELSE NoFd

\* fd64_to_fd.remove(&fd64): the value removed, NoFd for None
CloseTake(fm, fd64) == IF fd64 \in DOMAIN fm.fd64_to_fd THEN fm.fd64_to_fd[fd64] ELSE NoFd

CloseFd64ToFd(fm, fd64) == [fm EXCEPT !.fd64_to_fd = Del(@, fd64)]

\* fd_to_fd64.retain(|_, v| *v != fd64)
CloseFdToFd64(fm, fd64) ==
    [fm EXCEPT !.fd_to_fd64 = DelAll(@, {r \in DOMAIN @ : @[r] = fd64})]

CloseFdInfo(fm, fd64) == [fm EXCEPT !.fd_info = Del(@, fd64)]

\* close holds the write lock of fd_to_fd64 from its retain to its return.
FdToFd64Locked(cs, t) == \E u \in Threads \ {t} : cs[u].pc = "close_info"

\* History of the calls: calls started, the handles create and get_or_create
\* made in the order they returned them, the descriptor each was made for, how
\* many close calls got a descriptor back per handle, how many got None for a
\* handle made before, the handles closed that were never made, and per
\* listener descriptor the handles get_or_create has answered with since the
\* last step of a close of its handle.
RegistryLogNew ==
    [calls |-> 0, handed_out |-> <<>>, created |-> EmptyMap,
     close_some |-> [h \in {} |-> 0], close_none |-> [h \in {} |-> 0],
     close_unknown |-> {}, get_or_create |-> [r \in ListenFds |-> {}]]

LogMade(log, fd64, raw_fd) ==
    [log EXCEPT !.handed_out = Append(@, fd64), !.created = Put(@, fd64, raw_fd)]

LogGetOrCreate(log, raw_fd, fd64) == [log EXCEPT !.get_or_create[raw_fd] = @ \cup {fd64}]

Count(f, k) == IF k \in DOMAIN f THEN f[k] ELSE 0

LogCloseNone(log, fd64) ==
    IF fd64 \in DOMAIN log.created
    THEN [log EXCEPT !.close_none = Put(@, fd64, Count(@, fd64) + 1)]
    ELSE [log EXCEPT !.close_unknown = @ \cup {fd64}]

LogCloseStep(log, raw_fd) ==
    IF raw_fd \in ListenFds THEN [log EXCEPT !.get_or_create[raw_fd] = {}] ELSE log

(***************************************************************************)
(* TokenManager (src/src/event/mod.rs:55-84).                              *)
(***************************************************************************)
TokenManagerNew == [fd64_to_token |-> EmptyMap, token_to_fd64 |-> EmptyMap, counter |-> 1]

GenerateToken(tm, fd64) ==
    [fd64_to_token |-> Put(tm.fd64_to_token, fd64, tm.counter),
     token_to_fd64 |-> Put(tm.token_to_fd64, tm.counter, fd64),
     counter       |-> tm.counter + 1]

HasToken(tm, fd64) == fd64 \in DOMAIN tm.fd64_to_token

GetFd64(tm, token) ==
    IF token \in DOMAIN tm.token_to_fd64 THEN tm.token_to_fd64[token] ELSE NoKey

TokenRemove(tm, fd64) ==
    IF fd64 \in DOMAIN tm.fd64_to_token
    THEN [tm EXCEPT !.token_to_fd64 = Del(@, tm.fd64_to_token[fd64]),
                    !.fd64_to_token = Del(@, fd64)]
    ELSE tm

(***************************************************************************)
(* The poller (mio::Poll over epoll).  A registration belongs to the raw   *)
(* descriptor; closing the descriptor drops it.  mio registers edge-       *)
(* triggered: register and reregister report a socket that is writable     *)
(* once (writable_edge), and after that report only is owed again when the *)
(* socket's readiness changes, which is up to the peer.                    *)
(***************************************************************************)
PollEntry(token, interest) ==
    [token |-> token, interest |-> interest, writable_edge |-> "W" \in interest]

PollRegister(p, raw_fd, token, interest) == Put(p, raw_fd, PollEntry(token, interest))

PollReregister(p, raw_fd, token, interest) ==
    IF raw_fd \in DOMAIN p THEN Put(p, raw_fd, PollEntry(token, interest)) ELSE p

\* The poller has handed the writable event of raw_fd to the loop.
PollTaken(p, raw_fd) == [p EXCEPT ![raw_fd].writable_edge = FALSE]

PollDeregister(p, raw_fd) == Del(p, raw_fd)

OsClose(s, raw_fd) ==
    [s EXCEPT !.os_fds = @ \ {raw_fd}, !.poll = Del(@, raw_fd),
              !.closed_registered = IF raw_fd \in DOMAIN s.poll THEN @ \cup {raw_fd} ELSE @]


(***************************************************************************)
(* TrafficStats (src/src/stats.rs).  The counters are AtomicU64 and        *)
(* fetch_add / fetch_sub wrap: a counter is kept as an integer that stands *)
(* for its value modulo 2^64, so adding (-1 as usize) is adding -1.        *)
(***************************************************************************)
StatsNew ==
    [tcp_bytes_received |-> 0, tcp_bytes_sent |-> 0,
     udp_bytes_received |-> 0, udp_bytes_sent |-> 0,
     tcp_connections |-> 0, udp_sessions |-> 0]

AddTcpReceived(st, bytes) == [st EXCEPT !.tcp_bytes_received = @ + bytes]
AddTcpSent(st, bytes) == [st EXCEPT !.tcp_bytes_sent = @ + bytes]
AddUdpReceived(st, bytes) == [st EXCEPT !.udp_bytes_received = @ + bytes]
AddUdpSent(st, bytes) == [st EXCEPT !.udp_bytes_sent = @ + bytes]
IncTcpConnections(st) == [st EXCEPT !.tcp_connections = @ + 1]
DecTcpConnections(st) == [st EXCEPT !.tcp_connections = @ - 1]
IncUdpSessions(st) == [st EXCEPT !.udp_sessions = @ + 1]

(***************************************************************************)
(* TcpEndpoint, TcpConnection (src/src/connection/mod.rs).                 *)
(***************************************************************************)
TcpEndpointNew(fd64, buf_size) ==
    [fd64 |-> fd64, data |-> [i \in 1..buf_size |-> 0], begin |-> 0, data_len |-> 0]

TcpConnectionNew(local_fd, remote_fd, create_time, buf_size, remote_connecting) ==
    [local |-> TcpEndpointNew(local_fd, buf_size),
     remote |-> TcpEndpointNew(remote_fd, buf_size),
     create_time |-> create_time,
     last_active_time |-> create_time,
     remote_connecting |-> remote_connecting]

(***************************************************************************)
(* TcpConnectionManager (src/src/manager/mod.rs:16-189).  The LruCollector *)
(* is kept as its access_times map.                                        *)
(***************************************************************************)
TcpManagerNew == [connections |-> EmptyMap, lru |-> EmptyMap, last_clear_time |-> 0]

TcpNewConnection(tm, local_fd, remote_fd, create_time, buf_size, remote_connecting) ==
    [tm EXCEPT !.connections =
                   Put(@, local_fd, TcpConnectionNew(local_fd, remote_fd, create_time,
                                                     buf_size, remote_connecting)),
               !.lru = Put(@, local_fd, create_time)]

TcpLen(tm) == Cardinality(DOMAIN tm.connections)

\* get_connection (src/src/manager/mod.rs:84-86): the lookup by key alone.
GetConnectionByKeyOnly(tm, fd64) == IF fd64 \in DOMAIN tm.connections THEN fd64 ELSE NoKey

\* The key of the record found, NoKey for None.
GetConnectionByAnyFd(tm, fd64) ==
    IF fd64 \in DOMAIN tm.connections THEN fd64
    ELSE IF \E k \in DOMAIN tm.connections : tm.connections[k].remote.fd64 = fd64
         THEN CHOOSE k \in DOMAIN tm.connections : tm.connections[k].remote.fd64 = fd64
         ELSE NoKey

TcpErase(tm, fd64) ==
    [tm EXCEPT !.connections = Del(@, fd64), !.lru = Del(@, fd64)]

LruUpdate(lru, key, access_time) ==
    IF key \in DOMAIN lru THEN Put(lru, key, access_time) ELSE lru

TcpUpdateLru(tm, fd64, t) == [tm EXCEPT !.lru = LruUpdate(@, fd64, t)]

(***************************************************************************)
(* The state the handlers work on, as one record.                          *)
(***************************************************************************)
State ==
    [fd_manager |-> fd_manager, token_manager |-> token_manager,
     tcp_manager |-> tcp_manager, udp_manager |-> udp_manager, stats |-> stats,
     poll |-> poll, os_fds |-> os_fds, phase |-> phase, flow |-> flow, faults |-> faults,
     last |-> last, closed_registered |-> {}]

Becomes(s) ==
    /\ fd_manager' = s.fd_manager
    /\ token_manager' = s.token_manager
    /\ tcp_manager' = s.tcp_manager
    /\ udp_manager' = s.udp_manager
    /\ stats' = s.stats
    /\ poll' = s.poll
    /\ os_fds' = s.os_fds
    /\ phase' = s.phase
    /\ flow' = s.flow
    /\ faults' = s.faults
    /\ last' = s.last
    /\ closed_registered' = s.closed_registered

\* The ways a handler ends after a system call failed or would have blocked.
FaultResults ==
    {"wouldblock", "error", "socket_failed", "register_local_failed",
     "register_remote_failed", "register_failed", "connect_error", "connect_failed",
     "recv_wouldblock", "recv_error", "recv_failed",
     "send_zero", "send_wouldblock", "send_error", "send_failed"}

Ret(s, op, fd64, res) ==
    [s EXCEPT !.last = [op |-> op, fd64 |-> fd64, res |-> res],
              !.faults = IF res \in FaultResults THEN @ + 1 ELSE @]

\* if let Some(raw_fd) = fd_manager.close(fd64) { libc::close(raw_fd) }
CloseHandle(s, fd64) ==
    IF FdExist(s.fd_manager, fd64)
    THEN [OsClose(s, FdToFd(s.fd_manager, fd64)) EXCEPT
              !.fd_manager = FdClose(s.fd_manager, fd64)]
    ELSE s

\* History: the flow of a connection ends when the connection is closed.
FlowNew == [local |-> [rcvd |-> 0, sent |-> <<>>], remote |-> [rcvd |-> 0, sent |-> <<>>]]
FlowEnd(fl, a, b) == DelAll(fl, {a, b})

(***************************************************************************)
(* TcpHandler::close_connection (src/src/event/tcp.rs:961-1031).           *)
(***************************************************************************)
CloseConnection(s, fd64, other_fd64, my_fd, other_fd) ==
    LET s1 == CloseHandle(s, fd64)
        s2 == CloseHandle(s1, other_fd64)
    IN  [s2 EXCEPT
            !.poll = PollDeregister(PollDeregister(@, my_fd), other_fd),
            !.stats = DecTcpConnections(@),
            !.token_manager = TokenRemove(TokenRemove(@, fd64), other_fd64),
            !.flow = FlowEnd(@, fd64, other_fd64)]

\* close_connection(...); tcp_manager.erase(&fd64): the pair every failure branch
\* of on_read and on_write ends with, fd64 being the handle the event came on.
CloseAndErase(s, fd64, other_fd64) ==
    LET c == CloseConnection(s, fd64, other_fd64,
                             FdToFd(s.fd_manager, fd64), FdToFd(s.fd_manager, other_fd64))
    IN  [c EXCEPT !.tcp_manager = TcpErase(@, fd64)]


(***************************************************************************)
(* The results of the system calls of one handler run, chosen by the       *)
(* environment: getsockopt(SO_ERROR), recv and send with the errno of a    *)
(* -1.  send on a stream socket with a non-empty buffer returns -1 or the  *)
(* number of bytes it took, at most the number offered.                    *)
(***************************************************************************)
IoResults ==
    {e \in [so_error : {0, 1},
            recv_len : {0 - 1, 0} \cup (1..BufSize), recv_again : BOOLEAN,
            send_len : {0 - 1} \cup (1..BufSize), send_again : BOOLEAN] :
        /\ e.recv_again => e.recv_len < 0       \* errno is read after a -1 only
        /\ e.send_again => e.send_len < 0
        /\ e.so_error # 0 => e.recv_len = 0 /\ e.send_len = 1}

OsSend(env, len) == Min(env.send_len, len)

Side(conn, fd64) == IF fd64 = conn.local.fd64 THEN "local" ELSE "remote"
Peer(conn, fd64) == IF fd64 = conn.local.fd64 THEN conn.remote.fd64 ELSE conn.local.fd64

\* A fill that leaves begin where the last flush put it.
EndpointFillKeepBegin(ep, recv_len, rcvd) ==
    [ep EXCEPT !.data = [i \in DOMAIN @ |-> IF i <= recv_len THEN rcvd + i ELSE @[i]],
               !.data_len = recv_len]

\* recv(my_fd, data.as_mut_ptr(), data.len()) returned recv_len > 0, then
\* data_len = recv_len; begin = 0.  The bytes are the next recv_len bytes of the
\* peer's stream: the stream's k-th byte is the number k.
EndpointFill(ep, recv_len, rcvd) ==
    [ep EXCEPT !.data = [i \in DOMAIN @ |-> IF i <= recv_len THEN rcvd + i ELSE @[i]],
               !.data_len = recv_len,
               !.begin = 0]

\* data_len = data_len.saturating_sub(send_len); begin += send_len
EndpointAdvance(ep, send_len) ==
    [ep EXCEPT !.data_len = IF send_len > @ THEN 0 ELSE @ - send_len,
               !.begin = @ + send_len]

\* The bytes send() took of (data.as_ptr(), data_len), as on_read passes them.
OnReadSent(ep, send_len) == [i \in 1..send_len |-> ep.data[i]]

\* The same read without the offset: what on_write would send if it ignored begin.
OnWriteSentFromStart(ep, send_len) == [i \in 1..send_len |-> ep.data[i]]

\* The bytes send() took of (data.as_ptr().add(begin), data_len), as on_write passes them.
OnWriteSent(ep, send_len) == [i \in 1..send_len |-> ep.data[ep.begin + i]]

\* reregister(&mut stream, tok, interest) for the event's own handle fd64, when it
\* has a token.
RearmSelf(s, fd64, interest) ==
    IF HasToken(s.token_manager, fd64)
    THEN [s EXCEPT !.poll = PollReregister(@, FdToFd(s.fd_manager, fd64),
                                           s.token_manager.fd64_to_token[fd64], interest)]
    ELSE s

\* An on_read that never holds back.
NeverPending(ep) == FALSE

\* if my_endpoint.data_len != 0 { return Ok(()) }: the guard of on_read's recv
HasPending(ep) == ep.data_len # 0

\* A cap that lets one flow too many in.
AtCapOffByOne(len, max_connections) == len > max_connections

\* tcp_manager.len() >= max_connections, udp_manager.len() >= max_connections
AtCap(len, max_connections) == len >= max_connections

SetConn(s, key, conn) == [s EXCEPT !.tcp_manager.connections = Put(@, key, conn)]

(***************************************************************************)
(* TcpHandler::on_read (src/src/event/tcp.rs:347-646).                     *)
(***************************************************************************)
\* Lines 541-645: recv returned recv_len > 0.
OnReadForward(s, fd64, key, env) ==
    LET conn == s.tcp_manager.connections[key]
        side == Side(conn, fd64)
        other == Peer(conn, fd64)
        rcvd == s.flow[key][side].rcvd
        filled == EndpointFill(conn[side], env.recv_len, rcvd)
        send_len == OsSend(env, filled.data_len)
        s1 == [SetConn(s, key, [conn EXCEPT ![side] = filled]) EXCEPT
                  !.stats = AddTcpReceived(@, env.recv_len),
                  !.flow[key][side].rcvd = @ + env.recv_len]
        s2 == [s1 EXCEPT !.stats = AddTcpSent(@, send_len)]
    IN  IF ~FdExist(s.fd_manager, other) THEN Ret(s1, "on_read", fd64, "peer_gone")
        ELSE IF send_len = 0
        THEN Ret(CloseAndErase(s2, fd64, other), "on_read", fd64, "send_zero")
        ELSE IF send_len < 0 /\ ~env.send_again
        THEN Ret(CloseAndErase(s2, fd64, other), "on_read", fd64, "send_error")
        ELSE LET ep == IF send_len > 0 THEN EndpointAdvance(filled, send_len) ELSE filled
                 s3 == [SetConn(s2, key, [conn EXCEPT ![side] = ep]) EXCEPT
                           !.flow[key][side].sent =
                               IF send_len > 0 THEN @ \o OnReadSent(filled, send_len) ELSE @]
                 s4 == IF ep.data_len > 0 THEN RearmSelf(s3, fd64, {"W"}) ELSE s3
                 s5 == [s4 EXCEPT !.tcp_manager = TcpUpdateLru(@, fd64, now)]
             IN  Ret(s5, "on_read", fd64,
                     IF send_len < 0 THEN "send_wouldblock"
                     ELSE IF ep.data_len > 0 THEN "pending" ELSE "forwarded")

OnRead(s, fd64, env) ==
    IF ~FdExist(s.fd_manager, fd64) THEN Ret(s, "on_read", fd64, "not_exist")
    ELSE LET key == GetConnectionByAnyFd(s.tcp_manager, fd64) IN
    IF key = NoKey THEN Ret(s, "on_read", fd64, "no_conn")
    ELSE LET conn == s.tcp_manager.connections[key]
             other == Peer(conn, fd64)
             is_local == fd64 = conn.local.fd64
             my_endpoint == conn[Side(conn, fd64)]
    IN  IF fd64 = conn.remote.fd64 /\ conn.remote_connecting
        THEN IF env.so_error = 0
             THEN Ret(SetConn(s, key, [conn EXCEPT !.remote_connecting = FALSE]),
                      "on_read", fd64, "connected")
             ELSE IF ~FdExist(s.fd_manager, other) THEN Ret(s, "on_read", fd64, "peer_gone")
             ELSE Ret(CloseAndErase(s, fd64, other), "on_read", fd64, "connect_failed")
        ELSE IF ~FdExist(s.fd_manager, other) THEN Ret(s, "on_read", fd64, "peer_gone")
        ELSE IF conn.remote_connecting /\ is_local
        THEN Ret(s, "on_read", fd64, "skip_connecting")
        ELSE IF HasPending(my_endpoint) THEN Ret(s, "on_read", fd64, "skip_pending")
        ELSE IF env.recv_len = 0
        THEN Ret(CloseAndErase([s EXCEPT !.stats = AddTcpReceived(@, env.recv_len)],
                               fd64, other), "on_read", fd64, "eof")
        ELSE IF env.recv_len < 0
        THEN IF env.recv_again
             THEN Ret([s EXCEPT !.stats = AddTcpReceived(@, env.recv_len)],
                      "on_read", fd64, "recv_wouldblock")
             ELSE Ret(CloseAndErase([s EXCEPT !.stats = AddTcpReceived(@, env.recv_len)],
                                    fd64, other), "on_read", fd64, "recv_error")
        ELSE OnReadForward(s, fd64, key, env)

(***************************************************************************)
(* TcpHandler::on_write (src/src/event/tcp.rs:649-959).                    *)
(***************************************************************************)
\* Lines 756-958: the pending bytes of the event's own endpoint go to the peer.
OnWriteFlush(s, fd64, key, env) ==
    LET conn == s.tcp_manager.connections[key]
        side == Side(conn, fd64)
        other == Peer(conn, fd64)
        mine == conn[side]
        send_len == OsSend(env, mine.data_len)
        s1 == [s EXCEPT !.stats = AddTcpSent(@, send_len)]
        lru(x) == [x EXCEPT !.tcp_manager = TcpUpdateLru(@, fd64, now)]
    IN  IF ~FdExist(s.fd_manager, other) THEN Ret(s, "on_write", fd64, "peer_gone")
        ELSE IF mine.data_len = 0 THEN Ret(s, "on_write", fd64, "nothing_pending")
        ELSE IF send_len = 0
        THEN Ret(lru(RearmSelf(s1, fd64, {"R", "W"})), "on_write", fd64, "send_zero")
        ELSE IF send_len < 0
        THEN IF env.send_again
             THEN Ret(lru(RearmSelf(s1, fd64, {"R", "W"})), "on_write", fd64, "send_wouldblock")
             ELSE Ret(CloseAndErase(s1, fd64, other), "on_write", fd64, "send_error")
        ELSE LET ep == EndpointAdvance(mine, send_len)
                 s2 == [SetConn(s1, key, [conn EXCEPT ![side] = ep]) EXCEPT
                           !.flow[key][side].sent = @ \o OnWriteSent(mine, send_len)]
                 s3 == IF ep.data_len = 0 THEN RearmSelf(s2, fd64, {"R"}) ELSE s2
             IN  Ret(lru(s3), "on_write", fd64, IF ep.data_len = 0 THEN "drained" ELSE "partial")

OnWrite(s, fd64, env) ==
    IF ~FdExist(s.fd_manager, fd64) THEN Ret(s, "on_write", fd64, "not_exist")
    ELSE LET key == GetConnectionByAnyFd(s.tcp_manager, fd64) IN
    IF key = NoKey THEN Ret(s, "on_write", fd64, "no_conn")
    ELSE LET conn == s.tcp_manager.connections[key] IN
        IF fd64 = conn.remote.fd64 /\ conn.remote_connecting
        THEN IF env.so_error = 0
             THEN LET s1 == SetConn(s, key, [conn EXCEPT !.remote_connecting = FALSE])
                      s2 == RearmSelf(s1, fd64, {"R"})
                      s3 == OnRead(s2, conn.local.fd64, env)
                  IN  Ret(s3, "on_write", fd64, "connected")
             ELSE IF ~FdExist(s.fd_manager, conn.local.fd64)
                  THEN Ret(s, "on_write", fd64, "peer_gone")
                  ELSE Ret(CloseAndErase(s, fd64, conn.local.fd64),
                           "on_write", fd64, "connect_failed")
        ELSE OnWriteFlush(s, fd64, key, env)


(***************************************************************************)
(* TcpHandler::on_accept (src/src/event/tcp.rs:166-344).  The environment  *)
(* chooses what accept, socket, connect and the two register calls return. *)
(***************************************************************************)
AcceptResults ==
    {e \in [accept : {"ok", "wouldblock", "error"}, socket_ok : BOOLEAN,
            connect : {"ok", "inprogress", "error"},
            register_local_ok : BOOLEAN, register_remote_ok : BOOLEAN] :
        \* a call that fails ends the handler: the later calls are not made
        /\ e.accept # "ok" => e.socket_ok
        /\ ~e.socket_ok => e.connect = "ok"
        /\ ~e.socket_ok => e.register_local_ok
        /\ ~e.register_local_ok => e.register_remote_ok}

\* let remote_connecting = ret != 0 && connect_errno == libc::EINPROGRESS;
RemoteConnecting(connect) == connect = "inprogress"

OnAccept(s, env) ==
    IF env.accept # "ok" THEN Ret(s, "on_accept", NoKey, env.accept)
    ELSE IF AtCap(TcpLen(s.tcp_manager), config.max_connections)
    THEN Ret(s, "on_accept", NoKey, "max_connections")
    ELSE IF ~env.socket_ok THEN Ret(s, "on_accept", NoKey, "socket_failed")
    ELSE
    LET fd == LowestFree(s.os_fds)
        remote_fd == LowestFree(s.os_fds \cup {fd})
        remote_connecting == RemoteConnecting(env.connect)
        local_fd64 == s.fd_manager.counter
        remote_fd64 == s.fd_manager.counter + 1
        s1 == [s EXCEPT !.os_fds = @ \cup {fd, remote_fd},
                        !.fd_manager = FdCreate(FdCreate(@, fd, now), remote_fd, now),
                        !.token_manager = GenerateToken(@, local_fd64)]
        local_token == s.token_manager.counter
        s2 == [s1 EXCEPT !.poll = PollRegister(@, fd, local_token, {"R"}),
                         !.token_manager = GenerateToken(@, remote_fd64)]
        remote_token == s1.token_manager.counter
        s3 == [s2 EXCEPT
                  !.poll = PollRegister(@, remote_fd, remote_token,
                                        IF remote_connecting THEN {"R", "W"} ELSE {"R"}),
                  !.tcp_manager = TcpNewConnection(@, local_fd64, remote_fd64, now,
                                                   config.socket_buf_size, remote_connecting),
                  !.stats = IncTcpConnections(@),
                  !.flow = Put(@, local_fd64, FlowNew)]
    IN  IF ~env.register_local_ok
        THEN \* register(...)? returns; the accepted stream is dropped, which closes it
             Ret(OsClose(s1, fd), "on_accept", local_fd64, "register_local_failed")
        ELSE IF ~env.register_remote_ok
        THEN \* register(...)? returns; remote_stream is dropped, which closes remote_fd
             Ret(OsClose(s2, remote_fd), "on_accept", local_fd64, "register_remote_failed")
        ELSE Ret(s3, "on_accept", local_fd64,
                 IF remote_connecting THEN "connecting"
                 ELSE IF env.connect = "error" THEN "connect_error" ELSE "connected")

(***************************************************************************)
(* UdpSession (src/src/connection/mod.rs:179-227) and UdpSessionManager    *)
(* (src/src/manager/mod.rs:191-389).                                       *)
(***************************************************************************)
UdpSessionNew(address, fd64, local_listen_fd, create_time) ==
    [address |-> address, fd64 |-> fd64, local_listen_fd |-> local_listen_fd,
     create_time |-> create_time, last_active_time |-> create_time]

UdpManagerNew ==
    [sessions |-> EmptyMap, fd64_to_addr |-> EmptyMap, lru |-> EmptyMap, last_clear_time |-> 0]

UdpNewSession(um, address, fd64, local_listen_fd, create_time) ==
    [um EXCEPT !.sessions = Put(@, address,
                                UdpSessionNew(address, fd64, local_listen_fd, create_time)),
               !.fd64_to_addr = Put(@, fd64, address),
               !.lru = Put(@, address, create_time)]

UdpLen(um) == Cardinality(DOMAIN um.sessions)

\* A lookup that never finds a session.
NoSession(um, address) == FALSE

HasSession(um, address) == address \in DOMAIN um.sessions

\* get_session_by_fd64: the address of the session found, "" for None.
GetSessionByFd64(um, fd64) ==
    IF fd64 \in DOMAIN um.fd64_to_addr /\ um.fd64_to_addr[fd64] \in DOMAIN um.sessions
    THEN um.fd64_to_addr[fd64]
    ELSE ""

UdpUpdateLru(um, address, t) == [um EXCEPT !.lru = LruUpdate(@, address, t)]

(***************************************************************************)
(* UdpHandler::on_datagram (src/src/event/udp.rs:204-352).                 *)
(***************************************************************************)
MAX_DATA_LEN_UDP == 65536

DatagramResults ==
    {e \in [recv : {"ok", "wouldblock", "error"}, recv_len : {1, MAX_DATA_LEN_UDP - 1},
            socket_ok : BOOLEAN, register_ok : BOOLEAN, send_ok : BOOLEAN] :
        \* a call that fails ends the handler: the later calls are not made
        /\ (e.recv # "ok" \/ e.recv_len > 1) => e.socket_ok
        /\ ~e.socket_ok => e.register_ok
        /\ ~e.register_ok => e.send_ok}

\* libc::send(remote_fd, buf, recv_len) on the session's socket, the counter, the LRU.
DatagramSend(s, src_address, env) ==
    LET send_len == IF env.send_ok THEN env.recv_len ELSE 0 - 1
        s1 == [s EXCEPT !.stats = AddUdpSent(@, send_len)]
    IN  IF ~FdExist(s.fd_manager, s.udp_manager.sessions[src_address].fd64)
        THEN Ret(s, "on_datagram", NoKey, "no_fd")
        ELSE IF send_len < 0 THEN Ret(s1, "on_datagram", NoKey, "send_failed")
        ELSE Ret([s1 EXCEPT !.udp_manager = UdpUpdateLru(@, src_address, now)],
                 "on_datagram", NoKey, "sent")

OnDatagram(s, src_address, env) ==
    IF env.recv # "ok" THEN Ret(s, "on_datagram", NoKey, env.recv)
    ELSE IF env.recv_len > 65535 - 1 THEN Ret(s, "on_datagram", NoKey, "huge")
    ELSE IF HasSession(s.udp_manager, src_address) THEN DatagramSend(s, src_address, env)
    ELSE IF AtCap(UdpLen(s.udp_manager), config.max_connections)
    THEN Ret(s, "on_datagram", NoKey, "max_connections")
    ELSE IF ~env.socket_ok THEN Ret(s, "on_datagram", NoKey, "socket_failed")
    ELSE
    LET udp_fd == LowestFree(s.os_fds)
        remote_fd64 == s.fd_manager.counter
        fm1 == FdCreate(s.fd_manager, udp_fd, now)
        listen_fd64 == FdGetOrCreateResult(fm1, UdpListenFd)
        s1 == [s EXCEPT !.os_fds = @ \cup {udp_fd},
                        !.fd_manager = FdGetOrCreate(fm1, UdpListenFd, now),
                        !.token_manager = GenerateToken(@, remote_fd64)]
        tok == s.token_manager.counter
        s2 == [s1 EXCEPT
                  !.poll = PollRegister(@, udp_fd, tok, {"R"}),
                  !.udp_manager = UdpNewSession(@, src_address, remote_fd64, listen_fd64, now),
                  !.stats = IncUdpSessions(@)]
    IN  IF ~env.register_ok
        THEN \* unsafe { libc::close(udp_fd) }; return Ok(())
             Ret(OsClose(s1, udp_fd), "on_datagram", remote_fd64, "register_failed")
        ELSE LET s3 == DatagramSend(s2, src_address, env)
             IN  Ret(s3, "on_datagram", remote_fd64,
                     IF s3.last.res = "sent" THEN "new_sent" ELSE "new_unsent")

(***************************************************************************)
(* UdpHandler::on_response (src/src/event/udp.rs:355-462).                 *)
(***************************************************************************)
ResponseResults ==
    {e \in [recv_len : {0 - 1, 0, 1, MAX_DATA_LEN_UDP + 1}, send_ok : BOOLEAN] :
        e.recv_len # 1 => e.send_ok}

\* An on_response without the size check.
OnResponseAnySize(s, fd64, env) ==
    IF ~FdExist(s.fd_manager, fd64) THEN Ret(s, "on_response", fd64, "not_exist")
    ELSE
    LET s1 == [s EXCEPT !.stats = AddUdpReceived(@, env.recv_len)]
        address == GetSessionByFd64(s.udp_manager, fd64)
        send_len == IF env.send_ok THEN env.recv_len ELSE 0 - 1
        s2 == [s1 EXCEPT !.stats = AddUdpSent(@, send_len)]
    IN  IF env.recv_len < 0 THEN Ret(s1, "on_response", fd64, "recv_failed")
        ELSE IF env.recv_len = 0 THEN Ret(s1, "on_response", fd64, "empty")
        ELSE IF address = "" THEN Ret(s1, "on_response", fd64, "no_session")
        ELSE IF ~FdExist(s.fd_manager, s.udp_manager.sessions[address].local_listen_fd)
        THEN Ret(s1, "on_response", fd64, "no_listen_fd")
        ELSE IF send_len < 0 THEN Ret(s2, "on_response", fd64, "send_failed")
        ELSE Ret([s2 EXCEPT !.udp_manager = UdpUpdateLru(@, address, now)],
                 "on_response", fd64, "sent")

OnResponse(s, fd64, env) ==
    IF ~FdExist(s.fd_manager, fd64) THEN Ret(s, "on_response", fd64, "not_exist")
    ELSE
    LET s1 == [s EXCEPT !.stats = AddUdpReceived(@, env.recv_len)]
        address == GetSessionByFd64(s.udp_manager, fd64)
        send_len == IF env.send_ok THEN env.recv_len ELSE 0 - 1
        s2 == [s1 EXCEPT !.stats = AddUdpSent(@, send_len)]
    IN  IF env.recv_len < 0 THEN Ret(s1, "on_response", fd64, "recv_failed")
        ELSE IF env.recv_len = 0 THEN Ret(s1, "on_response", fd64, "empty")
        ELSE IF env.recv_len = MAX_DATA_LEN_UDP + 1 THEN Ret(s1, "on_response", fd64, "huge")
        ELSE IF address = "" THEN Ret(s1, "on_response", fd64, "no_session")
        ELSE IF ~FdExist(s.fd_manager, s.udp_manager.sessions[address].local_listen_fd)
        THEN Ret(s1, "on_response", fd64, "no_listen_fd")
        ELSE IF send_len < 0 THEN Ret(s2, "on_response", fd64, "send_failed")
        ELSE Ret([s2 EXCEPT !.udp_manager = UdpUpdateLru(@, address, now)],
                 "on_response", fd64, "sent")


(***************************************************************************)
(* clear_inactive of both managers (src/src/manager/mod.rs:115-171 and     *)
(* 323-371).  timed_out is collected from a HashMap iteration and sorted   *)
(* by last-active time, so among records of equal time any may come first: *)
(* the records removed are a choice among the oldest num_to_clean.         *)
(***************************************************************************)
TimeoutMs == TimeoutSec * 1000

\* A sweep that takes nothing.
NumToCleanNone(size, conn_clear_ratio, conn_clear_min) == 0

\* size / conn_clear_ratio + conn_clear_min, then min(num_to_clean, size)
NumToClean(size, conn_clear_ratio, conn_clear_min) ==
    Min(size \div conn_clear_ratio + conn_clear_min, size)

\* the filter of the filter_map: now - last_active > timeout
TimedOut(records, t, timeout) ==
    {k \in DOMAIN records : t - records[k].last_active_time > timeout}

\* sort_by_key(last_active) and take(num_to_clean): the sets it can yield
OldestFirst(records, timed_out, num_to_clean) ==
    {R \in SUBSET timed_out :
        /\ Cardinality(R) = Min(num_to_clean, Cardinality(timed_out))
        /\ \A r \in R : \A o \in timed_out \ R :
              records[r].last_active_time <= records[o].last_active_time}

\* The sweep goes past its two early returns.
SweepRuns(last_clear, t) ==
    /\ ~(t - last_clear < CONN_CLEAR_INTERVAL_MS)
    /\ ~config.disable_conn_clear

TcpToRemove(tm, t) ==
    IF SweepRuns(tm.last_clear_time, t) /\ config.conn_clear_ratio # 0
    THEN OldestFirst(tm.connections, TimedOut(tm.connections, t, TimeoutMs),
                     NumToClean(TcpLen(tm), config.conn_clear_ratio, config.conn_clear_min))
    ELSE {{}}

TcpClearInactive(s, to_remove) ==
    IF now - s.tcp_manager.last_clear_time < CONN_CLEAR_INTERVAL_MS THEN s
    ELSE LET s1 == [s EXCEPT !.tcp_manager.last_clear_time = now] IN
    IF config.disable_conn_clear THEN s1
    ELSE IF config.conn_clear_ratio = 0
    THEN [s1 EXCEPT !.phase = "panicked"]     \* attempt to divide by zero
    ELSE [s1 EXCEPT !.tcp_manager.connections = DelAll(@, to_remove),
                    !.tcp_manager.lru = DelAll(@, to_remove)]

UdpToRemove(um, t) ==
    IF SweepRuns(um.last_clear_time, t) /\ config.conn_clear_ratio # 0
    THEN OldestFirst(um.sessions, TimedOut(um.sessions, t, TimeoutMs),
                     NumToClean(UdpLen(um), config.conn_clear_ratio, config.conn_clear_min))
    ELSE {{}}

UdpClearInactive(s, to_remove) ==
    IF now - s.udp_manager.last_clear_time < CONN_CLEAR_INTERVAL_MS THEN s
    ELSE LET s1 == [s EXCEPT !.udp_manager.last_clear_time = now] IN
    IF config.disable_conn_clear THEN s1
    ELSE IF config.conn_clear_ratio = 0
    THEN [s1 EXCEPT !.phase = "panicked"]     \* attempt to divide by zero
    ELSE [s1 EXCEPT !.udp_manager.sessions = DelAll(@, to_remove),
                    !.udp_manager.lru = DelAll(@, to_remove)]

\* EventLoop::run, lines 310-317: both sweeps, the second only if the first returned.
ClearBoth(s, tcp_remove, udp_remove) ==
    LET s1 == TcpClearInactive(s, tcp_remove)
        s2 == IF s1.phase = "panicked" THEN s1 ELSE UdpClearInactive(s1, udp_remove)
    IN  Ret(s2, "clear_inactive", NoKey,
            IF s2.phase = "panicked" THEN "panic"
            ELSE IF s1.tcp_manager.last_clear_time # now THEN "rate_limited"
            ELSE IF config.disable_conn_clear THEN "disabled"
            ELSE "swept")

(***************************************************************************)
(* What the environment can have produced within a budget b: the registry  *)
(* hands out at most b.fd64 handles, the peers offer at most b.bytes bytes *)
(* per protocol, and at most b.faults system calls fail or would block.    *)
(***************************************************************************)
Budget == [fd64 |-> MaxFd64, bytes |-> MaxBytes, faults |-> MaxFaults]
BudgetBoth == [fd64 |-> MaxFd64, bytes |-> MaxBytesBoth, faults |-> MaxFaultsBoth]

Feasible(s, b) ==
    /\ s.fd_manager.counter <= b.fd64 + 1
    /\ s.faults <= b.faults
    /\ s.stats.tcp_bytes_received <= b.bytes
    /\ s.stats.udp_bytes_sent \in (0 - b.faults)..b.bytes
    /\ \E huge \in {0, 1} :
          s.stats.udp_bytes_received - huge * (MAX_DATA_LEN_UDP + 1)
              \in (0 - b.faults)..b.bytes

(***************************************************************************)
(* Configuration (src/src/config.rs:50-92, src/src/main.rs:282-298).       *)
(***************************************************************************)
DefaultConfig ==
    [max_connections |-> MaxConnections, socket_buf_size |-> BufSize,
     conn_clear_ratio |-> DEFAULT_CONN_CLEAR_RATIO, conn_clear_min |-> DEFAULT_CONN_CLEAR_MIN,
     disable_conn_clear |-> FALSE, timer_interval |-> TIMER_INTERVAL_MS]

(***************************************************************************)
(* Init: EventLoop::new (src/src/event/mod.rs:111-135) has run; the two    *)
(* listener sockets are open (src/src/main.rs:511-655).                    *)
(***************************************************************************)
NoListenSocket == [tcp_listen_token |-> 0, udp_listen_token |-> 0]

InitOf(configs, addresses) ==
    /\ config \in configs
    /\ fd_manager = FdManagerNew
    /\ token_manager = TokenManagerNew
    /\ tcp_manager = TcpManagerNew
    /\ udp_manager = UdpManagerNew
    /\ stats = StatsNew
    /\ poll = EmptyMap
    /\ os_fds = {TcpListenFd, UdpListenFd}
    /\ now = StartTime
    /\ last_clear_time = 0
    /\ listen_socket = NoListenSocket
    /\ phase = "new"
    /\ flow = EmptyMap
    /\ faults = 0
    /\ last = [op |-> "new", fd64 |-> NoKey, res |-> ""]
    /\ closed_registered = {}
    /\ callers = [t \in Threads |-> Idle]
    /\ registry_log = RegistryLogNew
    /\ timer = [entries |-> EmptyMap, instant |-> 0, executed |-> 0]
    /\ collector = [values |-> EmptyMap, access_times |-> EmptyMap, time_list |-> <<>>,
                    min_heap |-> <<>>, call |-> <<"new">>, returned |-> <<>>,
                    distinct |-> TRUE]
    /\ addr \in addresses

InitWith(configs) == InitOf(configs, {[op |-> "none"]})

Init == InitWith({DefaultConfig})

\* The values of --conn-clear-ratio and --conn-clear-min the runs of SpecEvict start
\* with: both are u32 arguments without a validator (src/src/main.rs:282-298).
EvictConfigs ==
    {[DefaultConfig EXCEPT !.conn_clear_ratio = r, !.conn_clear_min = m] :
        r \in {0, 1, DEFAULT_CONN_CLEAR_RATIO}, m \in {0, DEFAULT_CONN_CLEAR_MIN}}

InitEvict == InitWith(EvictConfigs)

(***************************************************************************)
(* EventLoop::register_listen_socket (src/src/event/mod.rs:145-175).       *)
(***************************************************************************)
RegisterListenSocket ==
    /\ phase = "new"
    /\ LET tm1 == GenerateToken(token_manager, ListenFd64)
           tm2 == GenerateToken(tm1, ListenFd64)
           tcp_listen_token == token_manager.counter
           udp_listen_token == tm1.counter
       IN  /\ token_manager' = tm2
           /\ poll' = PollRegister(PollRegister(poll, TcpListenFd, tcp_listen_token, {"R"}),
                                   UdpListenFd, udp_listen_token, {"R"})
           /\ listen_socket' = [tcp_listen_token |-> tcp_listen_token,
                                udp_listen_token |-> udp_listen_token]
    /\ phase' = "running"
    /\ last' = [op |-> "register_listen_socket", fd64 |-> ListenFd64, res |-> "ok"]
    /\ UNCHANGED <<fd_manager, tcp_manager, udp_manager, stats, os_fds, config, now,
                   last_clear_time, flow, faults, closed_registered, callers, registry_log,
                   timer, collector, addr>>

(***************************************************************************)
(* EventLoop::run (src/src/event/mod.rs:177-322): one action per event the *)
(* poller can report and per branch of the dispatch, one for the eviction  *)
(* tick, one for the clock.                                                *)
(***************************************************************************)
Frame ==
    UNCHANGED <<config, now, last_clear_time, listen_socket, callers, registry_log, timer,
                collector, addr>>

\* The poller reports `kind` for a registered descriptor that asked for it.
Reports(raw_fd, kind) == raw_fd \in DOMAIN poll /\ kind \in poll[raw_fd].interest

IsListenToken(token) ==
    token = listen_socket.tcp_listen_token \/ token = listen_socket.udp_listen_token

\* Lines 271-283: the handle of a flow event, NoKey when the event is skipped.
EventFd64(raw_fd) ==
    LET token == poll[raw_fd].token
        fd64 == GetFd64(token_manager, token)
    IN  IF IsListenToken(token) \/ fd64 = NoKey \/ ~FdExist(fd_manager, fd64)
        THEN NoKey ELSE fd64

IsUdp(fd64) == GetSessionByFd64(udp_manager, fd64) # ""

TcpAccept(b) ==
    /\ phase = "running"
    /\ \E raw_fd \in DOMAIN poll :
          Reports(raw_fd, "R") /\ poll[raw_fd].token = listen_socket.tcp_listen_token
    /\ \E env \in AcceptResults :
          LET s == OnAccept(State, env) IN Feasible(s, b) /\ Becomes(s)
    /\ Frame

UdpDatagram(b) ==
    /\ phase = "running"
    /\ \E raw_fd \in DOMAIN poll :
          /\ Reports(raw_fd, "R")
          /\ poll[raw_fd].token # listen_socket.tcp_listen_token
          /\ poll[raw_fd].token = listen_socket.udp_listen_token
    /\ \E src_address \in Clients, env \in DatagramResults :
          LET s == OnDatagram(State, src_address, env) IN Feasible(s, b) /\ Becomes(s)
    /\ Frame

TcpReadable(b) ==
    /\ phase = "running"
    /\ \E raw_fd \in DOMAIN poll, env \in IoResults :
          /\ Reports(raw_fd, "R")
          /\ EventFd64(raw_fd) # NoKey
          /\ ~IsUdp(EventFd64(raw_fd))
          /\ LET s == OnRead(State, EventFd64(raw_fd), env) IN Feasible(s, b) /\ Becomes(s)
    /\ Frame

UdpReadable(b) ==
    /\ phase = "running"
    /\ \E raw_fd \in DOMAIN poll, env \in ResponseResults :
          /\ Reports(raw_fd, "R")
          /\ EventFd64(raw_fd) # NoKey
          /\ IsUdp(EventFd64(raw_fd))
          /\ LET s == OnResponse(State, EventFd64(raw_fd), env) IN Feasible(s, b) /\ Becomes(s)
    /\ Frame

TcpWritable(b) ==
    /\ phase = "running"
    /\ \E raw_fd \in DOMAIN poll, env \in IoResults :
          /\ Reports(raw_fd, "W")
          /\ EventFd64(raw_fd) # NoKey
          /\ ~IsUdp(EventFd64(raw_fd))
          /\ LET s == OnWrite([State EXCEPT !.poll = PollTaken(@, raw_fd)],
                              EventFd64(raw_fd), env)
             IN  Feasible(s, b) /\ Becomes(s)
    /\ Frame

ClearTick ==
    /\ phase = "running"
    /\ now - last_clear_time > config.timer_interval
    /\ last_clear_time' = now
    /\ \E tcp_remove \in TcpToRemove(tcp_manager, now) :
          LET s1 == TcpClearInactive(State, tcp_remove) IN
          \E udp_remove \in UdpToRemove(s1.udp_manager, now) :
              Becomes(ClearBoth(State, tcp_remove, udp_remove))
    /\ UNCHANGED <<config, now, listen_socket, callers, registry_log, timer, collector, addr>>

Tick ==
    /\ phase = "running"
    /\ ~(now - last_clear_time > config.timer_interval)    \* the iteration's check is done
    /\ now + TickMs <= MaxTime
    /\ now' = now + TickMs
    /\ UNCHANGED <<fd_manager, token_manager, tcp_manager, udp_manager, stats, poll, os_fds,
                   config, last_clear_time, listen_socket, phase, flow, faults, last,
                   closed_registered, callers, registry_log, timer, collector, addr>>

Spec ==
    /\ Init
    /\ [][\/ RegisterListenSocket
          \/ TcpAccept(BudgetBoth)
          \/ UdpDatagram(BudgetBoth)
          \/ TcpReadable(BudgetBoth)
          \/ UdpReadable(BudgetBoth)
          \/ TcpWritable(BudgetBoth)
          \/ ClearTick
          \/ Tick]_vars

(***************************************************************************)
(* The forwarder with the TCP listener only, the clock standing still, and *)
(* with the UDP listener only (src/src/main.rs: --tcp and --udp are        *)
(* separate switches; the dispatch skips the listener that is None).       *)
(***************************************************************************)
SpecTcp ==
    /\ Init
    /\ [][\/ RegisterListenSocket
          \/ TcpAccept(Budget)
          \/ TcpReadable(Budget)
          \/ TcpWritable(Budget)]_vars

NextUdp ==
    \/ RegisterListenSocket
    \/ UdpDatagram(Budget)
    \/ UdpReadable(Budget)
    \/ ClearTick
    \/ Tick

SpecUdp == Init /\ [][NextUdp]_vars

(***************************************************************************)
(* Idle flows: flows are created and no byte is forwarded on them, under   *)
(* every configuration of the eviction.                                    *)
(***************************************************************************)
SpecEvict ==
    /\ InitEvict
    /\ [][\/ RegisterListenSocket
          \/ TcpAccept(BudgetBoth)
          \/ UdpDatagram(BudgetBoth)
          \/ ClearTick
          \/ Tick]_vars

(***************************************************************************)
(* The loop with a poll that can fail (src/src/event/mod.rs:213-237): an   *)
(* Interrupted poll is retried by `continue`, any other error is returned  *)
(* from run.                                                               *)
(***************************************************************************)
\* A poll no error of which is retried.
PollNeverRetries(kind) == FALSE

\* Err(ref e) if e.kind() == std::io::ErrorKind::Interrupted => continue
PollRetries(kind) == kind = "interrupted"

PollFails(b) ==
    /\ phase = "running"
    /\ faults < b.faults
    /\ \E kind \in {"interrupted", "other"} :
          /\ phase' = IF PollRetries(kind) THEN "running" ELSE "returned"
          /\ last' = [op |-> "poll", fd64 |-> NoKey, res |-> kind]
    /\ faults' = faults + 1
    /\ closed_registered' = {}
    /\ UNCHANGED <<fd_manager, token_manager, tcp_manager, udp_manager, stats, poll, os_fds,
                   flow>>
    /\ Frame

BudgetLoop == [fd64 |-> MaxFd64Loop, bytes |-> MaxBytesBoth, faults |-> MaxFaults]

SpecLoop ==
    /\ Init
    /\ [][\/ RegisterListenSocket
          \/ PollFails(BudgetLoop)
          \/ TcpAccept(BudgetLoop)
          \/ UdpDatagram(BudgetLoop)
          \/ TcpReadable(BudgetLoop)
          \/ UdpReadable(BudgetLoop)
          \/ TcpWritable(BudgetLoop)
          \/ ClearTick
          \/ Tick]_vars

(***************************************************************************)
(* The UDP listener alone with room for one session more than              *)
(* --max-connections of the other runs.                                    *)
(***************************************************************************)
InitUdpWide == InitWith({[DefaultConfig EXCEPT !.max_connections = MaxConnections + 1]})

SpecUdpWide == InitUdpWide /\ [][NextUdp]_vars

(***************************************************************************)
(* The timer (src/src/event/timer.rs) with the one registration the        *)
(* program makes, the stats dump (src/src/event/mod.rs:183-205), and with  *)
(* Timer::run called at the head of every iteration of the loop (line      *)
(* 212).  An entry is [time, interval, deleted]: its key in the BTreeMap,  *)
(* its interval, and the value of its Arc<AtomicBool>.                     *)
(***************************************************************************)
\* Timer::register, lines 38-53, as EventLoop::run calls it before the loop
TimerRegister ==
    /\ phase = "running"
    /\ timer.entries = EmptyMap /\ timer.executed = 0
    /\ LET next_time == timer.instant + STATS_INTERVAL_MS
       IN  timer' = [timer EXCEPT !.entries =
                        Put(@, next_time, [interval |-> STATS_INTERVAL_MS, deleted |-> FALSE])]
    /\ UNCHANGED <<Forwarder, collector, addr>>

\* Timer::run, lines 56-113
TimerRun ==
    /\ phase = "running"
    /\ LET instant == timer.instant
           due == {time \in DOMAIN timer.entries :
                      time <= instant /\ ~timer.entries[time].deleted}
           \* lines 68-77: entry.deleted.store(true); the tuple pushed to
           \* to_reschedule holds Arc::clone(&entry.deleted), the same flag
           marked == [time \in DOMAIN timer.entries |->
                        IF time \in due THEN [timer.entries[time] EXCEPT !.deleted = TRUE]
                        ELSE timer.entries[time]]
           to_reschedule == {marked[time] : time \in due}
           \* lines 84-92: retain drops what is marked, then the empty keys
           kept == [time \in {x \in DOMAIN marked : ~(x <= instant /\ marked[x].deleted)}
                       |-> marked[time]]
           \* lines 96-111: callback(), then `if !deleted.load(..)` reinserts
           again == {r \in to_reschedule : ~r.deleted}
           reinserted == [time \in {instant + r.interval : r \in again} |->
                            CHOOSE r \in again : time = instant + r.interval]
       IN  timer' = [timer EXCEPT
                        !.entries = [time \in DOMAIN kept \cup DOMAIN reinserted |->
                                        IF time \in DOMAIN reinserted THEN reinserted[time]
                                        ELSE kept[time]],
                        !.executed = @ + Cardinality(to_reschedule)]
    /\ UNCHANGED <<Forwarder, collector, addr>>

\* The iteration in between: the poll returns within its timeout of 1 s (line 215).
TimerElapse ==
    /\ phase = "running"
    /\ \E ms \in {500, 1000} :
          /\ timer.instant + ms <= MaxInstant
          /\ timer' = [timer EXCEPT !.instant = @ + ms]
    /\ UNCHANGED <<Forwarder, collector, addr>>

SpecTimer ==
    /\ Init
    /\ [][\/ RegisterListenSocket
          \/ TimerRegister
          \/ TimerRun
          \/ TimerElapse]_vars

(***************************************************************************)
(* An LruCollector (src/src/lru.rs) on its own, called through its public  *)
(* functions with the access time the managers pass, get_current_time()    *)
(* (src/src/manager/mod.rs:78, 187).  An entry of min_heap is <<time, key>>.*)
(***************************************************************************)
\* A min_heap that is left in the order of its pushes and updates.
Unsorted(heap) == heap

\* self.min_heap.sort_by(|a, b| a.0.cmp(&b.0)), lines 57 and 72: a stable sort
RECURSIVE SortByTime(_)
SortByTime(heap) ==
    IF heap = <<>> THEN <<>>
    ELSE LET sorted == SortByTime(SubSeq(heap, 1, Len(heap) - 1))
             e == heap[Len(heap)]
             n == Cardinality({i \in DOMAIN sorted : sorted[i][1] <= e[1]})
         IN  SubSeq(sorted, 1, n) \o <<e>> \o SubSeq(sorted, n + 1, Len(sorted))

\* new_key, lines 52-58
NewKey(c, key, value, access_time) ==
    [c EXCEPT !.values = Put(@, key, value),
              !.access_times = Put(@, key, access_time),
              !.time_list = Append(@, key),
              !.min_heap = SortByTime(Append(@, <<access_time, key>>))]

\* update, lines 61-77: the first heap entry of the key gets the new time
Update(c, key, access_time) ==
    IF key \in DOMAIN c.access_times
    THEN LET at == {i \in DOMAIN c.min_heap : c.min_heap[i][2] = key}
             first == IF at = {} THEN 0 ELSE CHOOSE i \in at : \A j \in at : i <= j
         IN  [c EXCEPT !.min_heap = SortByTime([i \in DOMAIN @ |->
                                        IF i = first THEN <<access_time, key>> ELSE @[i]]),
                       !.access_times = Put(@, key, access_time)]
    ELSE c

\* peek_back, lines 80-93: <<key, value>>, or <<>> for None
PeekBack(c) ==
    IF c.min_heap = <<>> THEN <<>>
    ELSE LET min_time == c.min_heap[1][1]
             found == {i \in DOMAIN c.time_list :
                         /\ c.time_list[i] \in DOMAIN c.access_times
                         /\ c.access_times[c.time_list[i]] = min_time
                         /\ c.time_list[i] \in DOMAIN c.values}
         IN  IF found = {} THEN <<>>
             ELSE LET key == c.time_list[CHOOSE i \in found : \A j \in found : i <= j]
                  IN  <<key, c.values[key]>>

\* erase, lines 96-102
Erase(c, key) ==
    LET Other(k) == k # key
        OtherEntry(e) == e[2] # key
    IN  [c EXCEPT !.values = Del(@, key),
                  !.access_times = Del(@, key),
                  !.time_list = SelectSeq(@, Other),
                  !.min_heap = SelectSeq(@, OtherEntry)]

\* cleanup_timeout, lines 122-139, at time `time`: the collector and the keys returned
CleanupTimeout(c, timeout_ms, time) ==
    LET IsTimeout(e) == time - e[1] > timeout_ms
        Stays(e) == ~IsTimeout(e)
        timed_out == SelectSeq(c.min_heap, IsTimeout)
        removed == [i \in DOMAIN timed_out |-> timed_out[i][2]]
        keys == {removed[i] : i \in DOMAIN removed}
        Kept(k) == k \notin keys
    IN  [collector |-> [c EXCEPT !.min_heap = SelectSeq(@, Stays),
                                 !.values = DelAll(@, keys),
                                 !.access_times = DelAll(@, keys),
                                 !.time_list = SelectSeq(@, Kept)],
         removed |-> removed]

\* A call has returned: the collector it leaves, and what the history notes of
\* it: the call, its return value, whether every new_key so far had a new key.
LruCalls(c, call, returned, distinct) ==
    /\ collector' = [c EXCEPT !.call = call, !.returned = returned, !.distinct = distinct]
    /\ UNCHANGED <<Forwarder, timer, addr>>

SpecLru ==
    /\ Init
    /\ [][\/ RegisterListenSocket
          \/ ClearTick
          \/ Tick
          \/ \E key \in 1..MaxEntries, value \in {"v1", "v2"} :
                /\ Len(collector.min_heap) < MaxEntries
                /\ LruCalls(NewKey(collector, key, value, now), <<"new_key", key>>, <<>>,
                            collector.distinct /\ key \notin DOMAIN collector.values)
          \/ \E key \in 1..MaxEntries :
                LruCalls(Update(collector, key, now), <<"update", key>>,
                         <<key \in DOMAIN collector.access_times>>, collector.distinct)
          \/ \E key \in 1..MaxEntries :
                LruCalls(Erase(collector, key), <<"erase", key>>,
                         <<key \in DOMAIN collector.values>>, collector.distinct)
          \/ \E timeout_ms \in {TickMs, TimeoutMs} :
                LET r == CleanupTimeout(collector, timeout_ms, now)
                IN  LruCalls(r.collector, <<"cleanup_timeout", timeout_ms>>, r.removed,
                             collector.distinct)]_vars

(***************************************************************************)
(* Address (src/src/types/address.rs) on its own.  An address is           *)
(* [family |-> "V4", octets, port] or [family |-> "V6", octets, port,      *)
(* flowinfo, scope_id], the fields SocketAddr compares; a text is the      *)
(* sequence of its parts, [kind |-> "[" | "]" | ":" | "ip" | "port", val]; *)
(* the text of an IP address or of a port is one part, written and parsed  *)
(* by std.  [family |-> "None"] is None, [family |-> "Err", ..] an Err.    *)
(***************************************************************************)
\* impl fmt::Display, lines 416-423
Display(a) ==
    LET Part(kind, val) == [kind |-> kind, val |-> val]
    IN  IF a.family = "V4"
        THEN <<Part("ip", a.octets), Part(":", 0), Part("port", a.port)>>
        ELSE <<Part("[", 0), Part("ip", a.octets), Part("]", 0), Part(":", 0),
               Part("port", a.port)>>

\* impl FromStr, lines 365-414
FromStr(s) ==
    LET Err(kind) == [family |-> "Err", kind |-> kind]
        At(kind) == {i \in DOMAIN s : s[i].kind = kind}
        IsPort(part) == Len(part) = 1 /\ part[1].kind = "port"
        IsIp(part, n) == Len(part) = 1 /\ part[1].kind = "ip" /\ Len(part[1].val) = n
    IN  IF s # <<>> /\ s[1].kind = "["
        THEN IF At("]") = {} THEN Err("InvalidFormat")
             ELSE LET closing == CHOOSE i \in At("]") : \A j \in At("]") : i <= j
                      ip_part == SubSeq(s, 2, closing - 1)
                      port_part == SubSeq(s, closing + 1, Len(s))
                  IN  IF port_part = <<>> \/ port_part[1].kind # ":"
                      THEN Err("InvalidFormat")
                      ELSE IF ~IsPort(Tail(port_part)) THEN Err("InvalidPort")
                      ELSE IF ~IsIp(ip_part, 16) THEN Err("InvalidIp")
                      ELSE \* Self::from_ipv6(ip, port), lines 42-46
                           [family |-> "V6", octets |-> ip_part[1].val,
                            port |-> port_part[2].val, flowinfo |-> 0, scope_id |-> 0]
        ELSE IF At(":") = {} THEN Err("InvalidFormat")
             ELSE LET last_colon == CHOOSE i \in At(":") : \A j \in At(":") : j <= i
                      ip_part == SubSeq(s, 1, last_colon - 1)
                      port_part == SubSeq(s, last_colon + 1, Len(s))
                  IN  IF \E i \in DOMAIN ip_part :
                            ip_part[i].kind = ":"
                                \/ (ip_part[i].kind = "ip" /\ Len(ip_part[i].val) = 16)
                      THEN Err("InvalidFormat")
                      ELSE IF ~IsIp(ip_part, 4) THEN Err("InvalidIp")
                      ELSE IF ~IsPort(port_part) THEN Err("InvalidPort")
                      ELSE \* Self::from_ipv4(ip, port), lines 35-39
                           [family |-> "V4", octets |-> ip_part[1].val,
                            port |-> port_part[1].val]

\* to_ipv4_mapped_ipv6, lines 275-293: Ipv6Addr::new of eight 16-bit segments
ToIpv4MappedIpv6(a) ==
    IF a.family = "V4"
    THEN LET segments == <<0, 0, 0, 0, 0, 65535,
                           a.octets[1] * 256 + a.octets[2],
                           a.octets[3] * 256 + a.octets[4]>>
             octets == [i \in 1..16 |->
                          IF i % 2 = 1 THEN segments[(i + 1) \div 2] \div 256
                          ELSE segments[i \div 2] % 256]
         IN  [family |-> "V6", octets |-> octets, port |-> a.port,
              flowinfo |-> 0, scope_id |-> 0]
    ELSE [family |-> "None"]

\* An extraction that looks at octets[10] and octets[11] only.
FromIpv4MappedIpv6ByMarker(a) ==
    IF a.family = "V6" /\ a.octets[11] = 255 /\ a.octets[12] = 255
    THEN [family |-> "V4", octets |-> SubSeq(a.octets, 13, 16), port |-> a.port]
    ELSE [family |-> "None"]

\* from_ipv4_mapped_ipv6, lines 298-328 (octets[0..15] are a.octets[1..16])
FromIpv4MappedIpv6(a) ==
    IF a.family = "V6"
    THEN IF /\ \A i \in 1..10 : a.octets[i] = 0
            /\ a.octets[11] = 255
            /\ a.octets[12] = 255
         THEN [family |-> "V4", octets |-> SubSeq(a.octets, 13, 16), port |-> a.port]
         ELSE [family |-> "None"]
    ELSE [family |-> "None"]

\* The addresses the calls are made on: IPv4 addresses, their IPv4-mapped
\* forms, the mapped form of 1.2.3.4 with one of its first twelve octets
\* changed, and ::1; an IPv6 address with the scope id from_raw_sockaddr
\* takes from sin6_scope_id (lines 57-92).
InitAddr ==
    LET ips == {<<0, 0, 0, 0>>, <<1, 2, 3, 4>>, <<127, 0, 0, 1>>, <<255, 255, 255, 255>>}
        ports == {0, 443, 65535}
        scope_ids == {0, 2}
        v4 == {[family |-> "V4", octets |-> ip, port |-> port] : ip \in ips, port \in ports}
        Mapped(ip) == ToIpv4MappedIpv6([family |-> "V4", octets |-> ip, port |-> 0]).octets
        Changed(octets, at) ==
            [i \in 1..16 |-> IF i # at THEN octets[i] ELSE IF octets[i] = 0 THEN 1 ELSE 0]
        ips6 == {Mapped(ip) : ip \in ips}
                    \cup {Changed(Mapped(<<1, 2, 3, 4>>), at) : at \in 1..12}
                    \cup {[i \in 1..16 |-> IF i = 16 THEN 1 ELSE 0]}
        v6 == {[family |-> "V6", octets |-> ip, port |-> port, flowinfo |-> 0,
                scope_id |-> scope_id] : ip \in ips6, port \in ports, scope_id \in scope_ids}
    IN  InitOf({DefaultConfig},
               {[self |-> a, op |-> "new", returned |-> a] : a \in v4 \cup v6})

\* A call has returned: the call and what it returned.
AddrCalls(op, returned) ==
    /\ addr' = [addr EXCEPT !.op = op, !.returned = returned]
    /\ UNCHANGED <<Forwarder, timer, collector>>

SpecAddr ==
    /\ InitAddr
    /\ [][\/ /\ addr.op = "new"
             /\ AddrCalls("from_str", FromStr(Display(addr.self)))
          \/ /\ addr.op = "new"
             /\ AddrCalls("to_ipv4_mapped_ipv6", ToIpv4MappedIpv6(addr.self))
          \/ /\ addr.op = "new"
             /\ AddrCalls("from_ipv4_mapped_ipv6", FromIpv4MappedIpv6(addr.self))
          \/ /\ addr.op = "to_ipv4_mapped_ipv6"
             /\ addr.returned.family # "None"
             /\ AddrCalls("from_ipv4_mapped_ipv6(to_ipv4_mapped_ipv6)",
                          FromIpv4MappedIpv6(addr.returned))]_vars

(***************************************************************************)
(* The registry alone (src/src/fd_manager.rs), called from MaxThreads      *)
(* threads.  create is called with a descriptor the caller has just got    *)
(* from socket() or accept(); get_or_create with a listener descriptor     *)
(* (src/src/event/udp.rs:271-273); close with any handle value, and its    *)
(* caller closes the descriptor it gets back (src/src/event/tcp.rs:975-    *)
(* 994) unless it is a listener's, which the listener socket owns.         *)
(***************************************************************************)
FdFrame ==
    UNCHANGED <<token_manager, tcp_manager, udp_manager, stats, poll, config, now,
                last_clear_time, listen_socket, phase, flow, faults, last, closed_registered,
                timer, collector, addr>>

Returns(t) == callers' = [callers EXCEPT ![t] = Idle]

\* create, line 93
CreateAlloc(t) ==
    /\ callers[t] = Idle
    /\ registry_log.calls < MaxCalls
    /\ fd_manager.counter <= MaxFd64
    /\ LET raw_fd == LowestFree(os_fds)
       IN  /\ os_fds' = os_fds \cup {raw_fd}
           /\ callers' = [callers EXCEPT ![t] = [op |-> "create", pc |-> "create_insert",
                                                 raw_fd |-> raw_fd,
                                                 fd64 |-> fd_manager.counter, ret |-> NoFd]]
    /\ fd_manager' = [fd_manager EXCEPT !.counter = FetchAdd(@)]
    /\ registry_log' = [registry_log EXCEPT !.calls = @ + 1]
    /\ FdFrame

\* create, lines 95-103
CreateInsert(t) ==
    /\ callers[t].pc = "create_insert"
    /\ ~FdToFd64Locked(callers, t)
    /\ fd_manager' = FdInsert(fd_manager, callers[t].raw_fd, callers[t].fd64, now)
    /\ registry_log' = LogMade(registry_log, callers[t].fd64, callers[t].raw_fd)
    /\ Returns(t)
    /\ UNCHANGED os_fds
    /\ FdFrame

\* get_or_create, lines 110-115
GetOrCreateRead(t, raw_fd) ==
    /\ callers[t] = Idle
    /\ registry_log.calls < MaxCalls
    /\ raw_fd \in ListenFds \cap os_fds
    /\ ~FdToFd64Locked(callers, t)
    /\ LET found == FdLookup(fd_manager, raw_fd)
       IN  IF found # NoKey
           THEN /\ registry_log' = LogGetOrCreate([registry_log EXCEPT !.calls = @ + 1],
                                                  raw_fd, found)
                /\ UNCHANGED callers
           ELSE /\ registry_log' = [registry_log EXCEPT !.calls = @ + 1]
                /\ callers' = [callers EXCEPT ![t] = [op |-> "get_or_create",
                                                      pc |-> "get_or_create_alloc",
                                                      raw_fd |-> raw_fd,
                                                      fd64 |-> NoKey, ret |-> NoFd]]
    /\ UNCHANGED <<fd_manager, os_fds>>
    /\ FdFrame

\* get_or_create, line 118
GetOrCreateAlloc(t) ==
    /\ callers[t].pc = "get_or_create_alloc"
    /\ fd_manager.counter <= MaxFd64
    /\ callers' = [callers EXCEPT ![t].pc = "get_or_create_insert",
                                  ![t].fd64 = fd_manager.counter]
    /\ fd_manager' = [fd_manager EXCEPT !.counter = FetchAdd(@)]
    /\ UNCHANGED <<os_fds, registry_log>>
    /\ FdFrame

\* get_or_create, lines 120-133
GetOrCreateInsert(t) ==
    /\ callers[t].pc = "get_or_create_insert"
    /\ ~FdToFd64Locked(callers, t)
    /\ LET existing == DoubleCheck(fd_manager, callers[t].raw_fd)
       IN  IF existing # NoKey
           THEN /\ registry_log' = LogGetOrCreate(registry_log, callers[t].raw_fd, existing)
                /\ UNCHANGED fd_manager
           ELSE /\ fd_manager' = FdInsert(fd_manager, callers[t].raw_fd, callers[t].fd64, now)
                /\ registry_log' =
                       LogGetOrCreate(LogMade(registry_log, callers[t].fd64, callers[t].raw_fd),
                                      callers[t].raw_fd, callers[t].fd64)
    /\ Returns(t)
    /\ UNCHANGED os_fds
    /\ FdFrame

\* close, lines 172-175, and the return of None at 185
CloseRemove(t, fd64) ==
    /\ callers[t] = Idle
    /\ registry_log.calls < MaxCalls
    /\ LET raw_fd == CloseTake(fd_manager, fd64)
       IN  /\ fd_manager' = CloseFd64ToFd(fd_manager, fd64)
           /\ IF raw_fd = NoFd
              THEN /\ UNCHANGED callers
                   /\ registry_log' =
                          LogCloseNone([registry_log EXCEPT !.calls = @ + 1], fd64)
              ELSE /\ callers' = [callers EXCEPT ![t] = [op |-> "close", pc |-> "close_retain",
                                                         raw_fd |-> NoFd,
                                                         fd64 |-> fd64, ret |-> raw_fd]]
                   /\ registry_log' =
                          LogCloseStep([registry_log EXCEPT
                                           !.calls = @ + 1,
                                           !.close_some = Put(@, fd64, Count(@, fd64) + 1)],
                                       raw_fd)
    /\ UNCHANGED os_fds
    /\ FdFrame

\* close, lines 178-179
CloseRetain(t) ==
    /\ callers[t].pc = "close_retain"
    /\ ~FdToFd64Locked(callers, t)
    /\ fd_manager' = CloseFdToFd64(fd_manager, callers[t].fd64)
    /\ callers' = [callers EXCEPT ![t].pc = "close_info"]
    /\ registry_log' = LogCloseStep(registry_log, callers[t].ret)
    /\ UNCHANGED os_fds
    /\ FdFrame

\* close, lines 181-185, and the caller's libc::close(raw_fd)
CloseInfo(t) ==
    /\ callers[t].pc = "close_info"
    /\ fd_manager' = CloseFdInfo(fd_manager, callers[t].fd64)
    /\ os_fds' = IF callers[t].ret \in ListenFds THEN os_fds ELSE os_fds \ {callers[t].ret}
    /\ registry_log' = LogCloseStep(registry_log, callers[t].ret)
    /\ Returns(t)
    /\ FdFrame

SpecFd ==
    /\ Init
    /\ [][\/ \E t \in Threads : CreateAlloc(t)
          \/ \E t \in Threads : CreateInsert(t)
          \/ \E t \in Threads : \E raw_fd \in ListenFds : GetOrCreateRead(t, raw_fd)
          \/ \E t \in Threads : GetOrCreateAlloc(t)
          \/ \E t \in Threads : GetOrCreateInsert(t)
          \/ \E t \in Threads : \E fd64 \in Fd64s : CloseRemove(t, fd64)
          \/ \E t \in Threads : CloseRetain(t)
          \/ \E t \in Threads : CloseInfo(t)]_vars

(***************************************************************************)
(* Properties.                                                             *)
(***************************************************************************)
Sides == {"local", "remote"}

\* The flows that are open: accepted and not closed by close_connection.
OpenFlows == DOMAIN flow

\* The handler that just ran closed a connection on EOF or on an I/O error.
CloseResults == {"eof", "recv_error", "send_error", "send_zero"}

ClosedOnFailure ==
    /\ last' # last
    /\ last'.op \in {"on_read", "on_write"}
    /\ last'.res \in CloseResults
    /\ ~(last'.op = "on_write" /\ last'.res = "send_zero")

\* C1: when on_read or on_write closes a connection on EOF or on a recv/send
\* error, the record leaves the table whichever handle the event came on: after
\* the step get_connection_by_any_fd finds nothing for the local and for the
\* remote handle of that connection, and the table holds one record less.
C1_FailureRemovesRecord ==
    [][ClosedOnFailure =>
          LET key == GetConnectionByAnyFd(tcp_manager, last'.fd64)
              conn == tcp_manager.connections[key]
          IN  /\ key # NoKey
              /\ GetConnectionByAnyFd(tcp_manager', conn.local.fd64) = NoKey
              /\ GetConnectionByAnyFd(tcp_manager', conn.remote.fd64) = NoKey
              /\ TcpLen(tcp_manager') = TcpLen(tcp_manager) - 1]_vars

\* The bytes 1..n of a stream, in order.
Stream(n) == [i \in 1..n |-> i]

\* C2: for every open TCP flow and each direction, the bytes handed to send()
\* on the peer socket are a prefix of the bytes recv() returned on the source
\* socket: nothing is reordered, duplicated or skipped.
C2_SentIsPrefixOfReceived ==
    \A k \in OpenFlows : \A side \in Sides :
        /\ Len(flow[k][side].sent) <= flow[k][side].rcvd
        /\ flow[k][side].sent = Stream(Len(flow[k][side].sent))

\* A flush by on_write has completed a buffer that on_read could not send in one go.
C2_Witness ==
    /\ last.op = "on_write" /\ last.res = "drained"
    /\ \E k \in OpenFlows : \E side \in Sides : Len(flow[k][side].sent) >= BufSize

\* C3: a side with pending bytes is not read: what recv returned and send has
\* not taken is exactly what the side's buffer holds, never more than one buffer.
C3_Backpressure ==
    \A k \in OpenFlows \cap DOMAIN tcp_manager.connections : \A side \in Sides :
        LET ep == tcp_manager.connections[k][side]
        IN  /\ flow[k][side].rcvd - Len(flow[k][side].sent) = ep.data_len
            /\ ep.data_len <= config.socket_buf_size

\* A readable event came on a side that holds pending bytes, and on_read left it alone.
C3_Witness ==
    /\ last.op = "on_read" /\ last.res = "skip_pending"
    /\ \E k \in OpenFlows : \E side \in Sides :
          /\ tcp_manager.connections[k][side].fd64 = last.fd64
          /\ tcp_manager.connections[k][side].data_len > 0

\* Side `side` of the open flow k holds bytes the peer has not taken.
Pending(k, side) ==
    /\ k \in OpenFlows
    /\ k \in DOMAIN tcp_manager.connections
    /\ tcp_manager.connections[k][side].data_len > 0

\* The poller owes the loop a writable event for the socket of that side: the
\* one event whose handler, on_write, sends the side's pending bytes.
FlushOwed(k, side) ==
    LET raw_fd == FdToFd(fd_manager, tcp_manager.connections[k][side].fd64)
    IN  /\ raw_fd \in DOMAIN poll
        /\ "W" \in poll[raw_fd].interest
        /\ poll[raw_fd].writable_edge

\* C4: a side of an open flow that holds pending bytes is never left without
\* the event that flushes it: after every handler a writable event is owed for
\* it, so that under fair delivery of the owed events the bytes are sent in
\* full and the side is registered for READABLE again.
C4_PendingIsFlushed ==
    \A k \in Fd64s : \A side \in Sides : Pending(k, side) => FlushOwed(k, side)

\* C5: the TCP table and the UDP table never hold more than max_connections
\* records, and an accept or a first datagram that is dropped at the cap
\* creates no record, no handle and no token and changes no existing flow.
DroppedAtCap == last' # last /\ last'.res = "max_connections"

C5_CapHolds ==
    /\ [](TcpLen(tcp_manager) <= config.max_connections
          /\ UdpLen(udp_manager) <= config.max_connections)
    /\ [][DroppedAtCap =>
            /\ tcp_manager' = tcp_manager
            /\ udp_manager' = udp_manager
            /\ fd_manager' = fd_manager
            /\ token_manager' = token_manager
            /\ poll' = poll
            /\ os_fds' = os_fds
            /\ flow' = flow]_vars

\* Both tables are at the cap and the datagram of a new client was just dropped.
C5_Witness ==
    /\ last.op = "on_datagram" /\ last.res = "max_connections"
    /\ TcpLen(tcp_manager) = config.max_connections
    /\ UdpLen(udp_manager) = config.max_connections

\* C6: a closed flow frees its slot: an accept is dropped for the cap only
\* while max_connections flows are open, so once one of them has closed (EOF
\* or error on either socket) the next accept creates a connection.
C6_ClosedFlowFreesSlot ==
    (last.op = "on_accept" /\ last.res = "max_connections")
        => Cardinality(OpenFlows) >= config.max_connections

\* C7: after every step the gauge tcp_connections equals the number of
\* records in the TCP table.
C7_TcpGaugeIsTableSize == stats.tcp_connections = TcpLen(tcp_manager)

\* C8: after every step the gauge udp_sessions equals the number of sessions
\* in the UDP table; a session the sweep removes takes one off the gauge.
C8_UdpGaugeIsTableSize == stats.udp_sessions = UdpLen(udp_manager)

\* The step is the loop's eviction tick.
SweepStep == last_clear_time' # last_clear_time

\* clear_inactive of a manager gets past its rate limit at this tick.
SweepDue(manager) == ~(now - manager.last_clear_time < CONN_CLEAR_INTERVAL_MS)

\* C9: with eviction enabled, the repeated ticks remove every flow that stays
\* idle beyond the timeout, whatever conn-clear-ratio and conn-clear-min are:
\* no tick aborts, and a sweep that finds idle records takes at least one of
\* them out of its table.
C9_IdleFlowsAreEvicted ==
    [][(SweepStep /\ ~config.disable_conn_clear) =>
          /\ phase' # "panicked"
          /\ (SweepDue(tcp_manager)
                 /\ TimedOut(tcp_manager.connections, now, TimeoutMs) # {})
                => TcpLen(tcp_manager') < TcpLen(tcp_manager)
          /\ (SweepDue(udp_manager)
                 /\ TimedOut(udp_manager.sessions, now, TimeoutMs) # {})
                => UdpLen(udp_manager') < UdpLen(udp_manager)]_vars

\* C10: the sweep removes only records without recent forwarding: a record it
\* takes out was last refreshed by update_lru more than the timeout ago.
C10_SweepSparesActiveFlows ==
    [][SweepStep =>
          /\ \A k \in DOMAIN tcp_manager.connections :
                k \notin DOMAIN tcp_manager'.connections
                    => now - tcp_manager.lru[k] > TimeoutMs
          /\ \A a \in DOMAIN udp_manager.sessions :
                a \notin DOMAIN udp_manager'.sessions
                    => now - udp_manager.lru[a] > TimeoutMs]_vars


\* C11: when the sweep removes a TCP connection, connecting or connected, both
\* of its handles are closed in the registry and both of its tokens leave the
\* token map: after the sweep no live handle and no token belongs to a record
\* the sweep took out.
C11_SweepClosesHandles ==
    [][SweepStep =>
          \A k \in DOMAIN tcp_manager.connections :
              k \notin DOMAIN tcp_manager'.connections =>
                  \A h \in {tcp_manager.connections[k].local.fd64,
                            tcp_manager.connections[k].remote.fd64} :
                      ~FdExist(fd_manager', h) /\ ~HasToken(token_manager', h)]_vars

\* C12: no handler closes an OS descriptor that is still registered with the
\* poller: the deregistration of a socket comes before its close().
C12_DeregisterBeforeClose == closed_registered = {}

\* C13: the registry never hands out a handle value twice: the handles create
\* and get_or_create made are pairwise different, closed ones included.
C13_HandlesNeverRepeat ==
    \A i, j \in 1..Len(registry_log.handed_out) :
        i # j => registry_log.handed_out[i] # registry_log.handed_out[j]

\* A descriptor number has come back from the OS after its handle was closed,
\* and create has made a handle for it again.
C13_Witness ==
    \E i, j \in 1..Len(registry_log.handed_out) :
        /\ i < j
        /\ registry_log.handed_out[i] \in DOMAIN registry_log.close_some
        /\ registry_log.created[registry_log.handed_out[i]]
              = registry_log.created[registry_log.handed_out[j]]

\* C14: to_fd(h) is Some exactly when exist(h) is true; a handle that was made
\* and not closed maps to the descriptor it was made for; a handle that was
\* closed is absent for to_fd and for exist from the close on.
C14_ToFdIffExist ==
    /\ \A h \in Fd64s : (FdToFd(fd_manager, h) # NoFd) <=> FdExist(fd_manager, h)
    /\ \A h \in DOMAIN registry_log.created :
          IF h \in DOMAIN registry_log.close_some
          THEN ~FdExist(fd_manager, h) /\ FdToFd(fd_manager, h) = NoFd
          ELSE FdToFd(fd_manager, h) = registry_log.created[h]

\* One handle is live while another is in the middle of its close.
C14_Witness ==
    /\ \E t \in Threads : callers[t].pc = "close_info"
    /\ \E h \in DOMAIN registry_log.created :
          h \notin DOMAIN registry_log.close_some /\ FdExist(fd_manager, h)

\* C15: of the close(h) calls on a handle that was made, one gets the
\* descriptor and every other gets None, whether they run one after the other
\* or at the same time; close of a handle that was never made gets None and
\* leaves the registry as it was.
C15_CloseIsIdempotent ==
    /\ [](\A h \in DOMAIN registry_log.close_some \cup DOMAIN registry_log.close_none :
              /\ Count(registry_log.close_some, h) = 1
              /\ h \in DOMAIN registry_log.created)
    /\ [][registry_log'.close_unknown # registry_log.close_unknown =>
              fd_manager' = fd_manager /\ callers' = callers]_vars

\* A second close of a handle came while the first one was still running.
C15_Witness ==
    \E t \in Threads :
        /\ callers[t].op = "close"
        /\ Count(registry_log.close_none, callers[t].fd64) > 0

\* C16: close(h) takes the handle out of both maps and the activity records
\* in one step: no caller sees exist(h) false with exist_info(h) still true,
\* and get_or_create never answers with a handle that close has taken out.
C16_CloseIsAtomic ==
    /\ \A h \in Fd64s : FdExistInfo(fd_manager, h) => FdExist(fd_manager, h)
    /\ \A r \in ListenFds : \A h \in registry_log.get_or_create[r] :
          h \notin DOMAIN registry_log.close_some

\* A close of the handle of descriptor raw_fd is under way.
Closing(raw_fd) == \E t \in Threads : callers[t].op = "close" /\ callers[t].ret = raw_fd

\* C17: as long as no close comes in between, all get_or_create calls with
\* the same descriptor, one after the other or at the same time, answer with
\* the same handle, and the registry holds one entry for the descriptor.
C17_GetOrCreateIsIdempotent ==
    \A r \in ListenFds :
        (~Closing(r) /\ registry_log.get_or_create[r] # {}) =>
            /\ Cardinality(registry_log.get_or_create[r]) = 1
            /\ {h \in DOMAIN fd_manager.fd64_to_fd : fd_manager.fd64_to_fd[h] = r}
                  = registry_log.get_or_create[r]
            /\ FdLookup(fd_manager, r) \in registry_log.get_or_create[r]

\* Two get_or_create calls for one descriptor ran at the same time: both took
\* a counter value, and the second check made the later one drop its own.
C17_Witness ==
    /\ \A t \in Threads : callers[t] = Idle
    /\ fd_manager.counter - 1 > Len(registry_log.handed_out)
    /\ \E r \in ListenFds : registry_log.get_or_create[r] # {}

\* C18: for every record of the TCP table the lookup by its local handle and
\* the lookup by its remote handle find that record and no other; a handle of
\* no record finds nothing.
C18_AnyFdFindsTheRecord ==
    /\ \A k \in DOMAIN tcp_manager.connections :
          LET c == tcp_manager.connections[k]
          IN  /\ GetConnectionByAnyFd(tcp_manager, c.local.fd64) = k
              /\ GetConnectionByAnyFd(tcp_manager, c.remote.fd64) = k
              /\ \A o \in DOMAIN tcp_manager.connections \ {k} :
                    tcp_manager.connections[o].remote.fd64
                        \notin {c.local.fd64, c.remote.fd64}
    /\ \A h \in Fd64s :
          (\A k \in DOMAIN tcp_manager.connections :
              h \notin {tcp_manager.connections[k].local.fd64,
                        tcp_manager.connections[k].remote.fd64})
          => GetConnectionByAnyFd(tcp_manager, h) = NoKey

\* on_read has just forwarded bytes that came in on the remote handle of a record.
C18_Witness ==
    /\ last.op = "on_read" /\ last.res = "forwarded"
    /\ \E k \in DOMAIN tcp_manager.connections :
          tcp_manager.connections[k].remote.fd64 = last.fd64

\* C19: fd64_to_addr maps a handle h to an address a exactly when the session
\* table holds a session for a whose remote handle is h: no entry of the
\* secondary index outlives its session, and get_session_by_fd64(h) never
\* finds a session of another handle.
C19_SecondaryIndexMatches ==
    /\ \A h \in DOMAIN udp_manager.fd64_to_addr :
          /\ udp_manager.fd64_to_addr[h] \in DOMAIN udp_manager.sessions
          /\ udp_manager.sessions[udp_manager.fd64_to_addr[h]].fd64 = h
    /\ \A a \in DOMAIN udp_manager.sessions :
          /\ udp_manager.sessions[a].fd64 \in DOMAIN udp_manager.fd64_to_addr
          /\ udp_manager.fd64_to_addr[udp_manager.sessions[a].fd64] = a
    /\ \A h \in Fd64s :
          GetSessionByFd64(udp_manager, h) # "" =>
              udp_manager.sessions[GetSessionByFd64(udp_manager, h)].fd64 = h

\* The step is an on_datagram that got its datagram and did not drop it.
DatagramStep ==
    /\ last' # last
    /\ last'.op = "on_datagram"
    /\ last'.res \in {"sent", "send_failed", "no_fd", "new_sent", "new_unsent"}

\* C20: the UDP table holds one session per client address: a datagram from
\* an address that has a session goes out on that session's socket and makes
\* no socket, handle or token; only a datagram from an address without a
\* session makes a session, and it leaves the other sessions as they are.
C20_OneSessionPerClient ==
    /\ [](\A a \in DOMAIN udp_manager.sessions : udp_manager.sessions[a].address = a)
    /\ [][DatagramStep =>
            /\ \A a \in DOMAIN udp_manager.sessions :
                  /\ a \in DOMAIN udp_manager'.sessions
                  /\ udp_manager'.sessions[a] = udp_manager.sessions[a]
            /\ IF last'.res \in {"sent", "send_failed", "no_fd"}
               THEN /\ DOMAIN udp_manager'.sessions = DOMAIN udp_manager.sessions
                    /\ fd_manager' = fd_manager
                    /\ token_manager' = token_manager
                    /\ os_fds' = os_fds
                    /\ poll' = poll
               ELSE Cardinality(DOMAIN udp_manager'.sessions)
                        = Cardinality(DOMAIN udp_manager.sessions) + 1]_vars

\* Two clients have a session each, and the last datagram went out on the
\* session its client already had.
C20_Witness ==
    /\ last.op = "on_datagram" /\ last.res = "sent"
    /\ UdpLen(udp_manager) = 2
    /\ fd_manager.counter = 4

\* C21: for both endpoints of every TCP connection begin + data_len never
\* exceeds the buffer's length, and a fill by recv starts the buffer at 0
\* again: after the step begin is what the step itself sent of the fill.
C21_BufferBounds ==
    /\ [](\A k \in DOMAIN tcp_manager.connections : \A side \in Sides :
             LET ep == tcp_manager.connections[k][side]
             IN  ep.begin + ep.data_len <= Len(ep.data))
    /\ [][\A k \in DOMAIN flow \cap DOMAIN flow' : \A side \in Sides :
             (flow'[k][side].rcvd > flow[k][side].rcvd
                 /\ k \in DOMAIN tcp_manager'.connections) =>
                 LET ep == tcp_manager'.connections[k][side]
                 IN  /\ ep.begin = Len(flow'[k][side].sent) - Len(flow[k][side].sent)
                     /\ ep.begin + ep.data_len
                           = flow'[k][side].rcvd - flow[k][side].rcvd]_vars

\* A buffer that was filled and flushed before holds the rest of a later fill.
C21_Witness ==
    \E k \in OpenFlows \cap DOMAIN tcp_manager.connections : \E side \in Sides :
        /\ flow[k][side].rcvd > BufSize
        /\ tcp_manager.connections[k][side].begin > 0
        /\ tcp_manager.connections[k][side].data_len > 0

C23_TokenMapIsBijection ==
    /\ \A fd64 \in DOMAIN token_manager.fd64_to_token :
          GetFd64(token_manager, token_manager.fd64_to_token[fd64]) = fd64
    /\ \A token \in DOMAIN token_manager.token_to_fd64 :
          /\ HasToken(token_manager, token_manager.token_to_fd64[token])
          /\ token_manager.fd64_to_token[token_manager.token_to_fd64[token]] = token
    /\ \A r1, r2 \in DOMAIN poll : r1 # r2 => poll[r1].token # poll[r2].token

\* The byte counters of TrafficStats.
ByteCounters ==
    {"tcp_bytes_received", "tcp_bytes_sent", "udp_bytes_received", "udp_bytes_sent"}

\* a <= b for two counter values, a negative integer -n standing for 2^64 - n.
U64Leq(a, b) == IF (a < 0) = (b < 0) THEN a <= b ELSE b < 0

RecvFailed == last' # last /\ last'.res \in {"recv_wouldblock", "recv_error", "recv_failed"}
SendFailed == last' # last /\ last'.res \in {"send_wouldblock", "send_error", "send_failed"}

\* C29: no step makes a byte counter smaller, and a recv, send or sendto that
\* returns -1 leaves the counter of its bytes as it was.
C29_ByteCountersGrow ==
    [][/\ \A c \in ByteCounters : U64Leq(stats[c], stats'[c])
       /\ RecvFailed => \A c \in ByteCounters : stats'[c] = stats[c]
       /\ SendFailed => /\ stats'.tcp_bytes_sent = stats.tcp_bytes_sent
                        /\ stats'.udp_bytes_sent = stats.udp_bytes_sent]_vars

\* C30: no failure inside accept, on_read, on_write, on_datagram or
\* on_response stops the event loop: the loop leaves its running state only
\* when the poll itself fails with an error other than Interrupted, and while
\* it runs both listeners stay registered for the events still to come.
C30_FlowFailuresDoNotStopTheLoop ==
    /\ [][(phase = "running" /\ phase' # "running") =>
             (phase' = "returned" /\ last'.op = "poll" /\ last'.res # "interrupted")]_vars
    /\ [](phase = "running" =>
             Reports(TcpListenFd, "R") /\ Reports(UdpListenFd, "R"))

\* The send of a datagram failed (the counter went to -1), the loop went on, and
\* a datagram that arrived later was forwarded.
C30_Witness ==
    /\ phase = "running"
    /\ faults > 0
    /\ last.op = "on_datagram" /\ last.res = "sent"
    /\ stats.udp_bytes_sent = 0

\* C24: a registered callback is periodic: a Timer::run at or past the due
\* time of an entry executes its callback once and puts the entry back at
\* now + interval.
C24_TimerIsPeriodic ==
    [][timer'.executed # timer.executed =>
          LET due == {time \in DOMAIN timer.entries : time <= timer.instant}
          IN  /\ timer'.executed = timer.executed + Cardinality(due)
              /\ \A time \in due :
                    LET new_time == timer.instant + timer.entries[time].interval
                    IN  /\ new_time \in DOMAIN timer'.entries
                        /\ timer'.entries[new_time].interval = timer.entries[time].interval]_vars

\* C25: after new_key, update and erase with distinct keys, peek_back returns
\* a stored entry with the smallest stored timestamp, and None exactly when
\* nothing is stored; this holds after every update as well.
C25_PeekBackIsOldest ==
    collector.distinct =>
        LET p == PeekBack(collector)
        IN  IF DOMAIN collector.values = {} THEN p = <<>>
            ELSE /\ p # <<>>
                 /\ p[1] \in DOMAIN collector.values
                 /\ p[2] = collector.values[p[1]]
                 /\ \A k \in DOMAIN collector.values :
                       collector.access_times[p[1]] <= collector.access_times[k]

\* The oldest key was updated and peek_back now returns another one.
C25_Witness ==
    /\ collector.distinct
    /\ collector.call[1] = "update"
    /\ Len(collector.time_list) >= 2
    /\ collector.time_list[1] = collector.call[2]
    /\ PeekBack(collector) # <<>>
    /\ PeekBack(collector)[1] # collector.call[2]
    /\ collector.access_times[collector.call[2]] > collector.access_times[PeekBack(collector)[1]]

\* C26: cleanup_timeout(timeout) removes exactly the entries whose age, now
\* minus the stored timestamp, exceeds the timeout, returns exactly their
\* keys, leaves every other entry as it was, and len() drops by the number
\* of keys returned.
C26_CleanupRemovesTheTimedOut ==
    [][(collector' # collector /\ collector'.call[1] = "cleanup_timeout") =>
          LET timeout_ms == collector'.call[2]
              old == {k \in DOMAIN collector.values :
                         now - collector.access_times[k] > timeout_ms}
              returned == collector'.returned
          IN  /\ DOMAIN collector'.values = DOMAIN collector.values \ old
              /\ {returned[i] : i \in DOMAIN returned} = old
              /\ Len(returned) = Cardinality(old)
              /\ \A k \in DOMAIN collector'.values :
                    /\ collector'.values[k] = collector.values[k]
                    /\ collector'.access_times[k] = collector.access_times[k]
              /\ Cardinality(DOMAIN collector'.values)
                    = Cardinality(DOMAIN collector.values) - Len(returned)]_vars

\* C27: parsing the text an address is formatted to gives an equal address,
\* for IPv4 and for IPv6 with any scope id: from_str(a.to_string()) == a,
\* equality being that of address, port, flow info and scope.
C27_ParseOfFormatIsEqual ==
    addr.op = "from_str" => addr.returned = addr.self

\* C28: from_ipv4_mapped_ipv6(to_ipv4_mapped_ipv6(v4)) is v4 with its port,
\* and from_ipv4_mapped_ipv6 of an IPv6 address that is not ::ffff:a.b.c.d
\* is None.
C28_MappedRoundTrip ==
    /\ addr.op = "from_ipv4_mapped_ipv6(to_ipv4_mapped_ipv6)" =>
          addr.self.family = "V4" /\ addr.returned = addr.self
    /\ (addr.op = "from_ipv4_mapped_ipv6" /\ addr.self.family = "V6") =>
          LET octets == addr.self.octets
              mapped == /\ \A i \in 1..10 : octets[i] = 0
                        /\ octets[11] = 255 /\ octets[12] = 255
          IN  ~mapped => addr.returned = [family |-> "None"]

\* 1.2.3.4:443 has gone to ::ffff:1.2.3.4 and back.
C28_Witness ==
    /\ addr.op = "from_ipv4_mapped_ipv6(to_ipv4_mapped_ipv6)"
    /\ addr.self = [family |-> "V4", octets |-> <<1, 2, 3, 4>>, port |-> 443]
    /\ addr.returned = addr.self

\* C40: clear_inactive returns normally under every --conn-clear-ratio and
\* --conn-clear-min the command line accepts, 0 included: no sweep of the TCP
\* or of the UDP table ends in a panic.
C40_ClearInactiveReturns == last.op = "clear_inactive" => last.res # "panic"

\* The session table, the secondary index, the registry and the open sockets of s
\* are those of the state, and s has sent no datagram the state has not.
OversizeDropped(s) ==
    /\ s.udp_manager.sessions = udp_manager.sessions
    /\ s.udp_manager.fd64_to_addr = udp_manager.fd64_to_addr
    /\ s.fd_manager = fd_manager
    /\ s.token_manager = token_manager
    /\ s.os_fds = os_fds
    /\ s.stats.udp_bytes_sent = stats.udp_bytes_sent
    /\ s.stats.udp_sessions = stats.udp_sessions

\* C32: an oversized datagram (more than 65534 bytes from a client, exactly
\* MAX_DATA_LEN_UDP + 1 bytes from the remote) is not forwarded and leaves the
\* session table, the secondary index and the registry as they were: a session
\* the client has stays, and none is created.
C32_OversizeIsDropped ==
    phase = "running" =>
        /\ \A src_address \in Clients, env \in DatagramResults :
              (env.recv = "ok" /\ env.recv_len > 65534)
                  => OversizeDropped(OnDatagram(State, src_address, env))
        /\ \A fd64 \in DOMAIN udp_manager.fd64_to_addr, env \in ResponseResults :
              env.recv_len = MAX_DATA_LEN_UDP + 1
                  => OversizeDropped(OnResponse(State, fd64, env))

\* The listener has just dropped an oversized datagram while c1 has a session.
C32_Witness ==
    /\ last.op = "on_datagram"
    /\ last.res = "huge"
    /\ HasSession(udp_manager, "c1")
    /\ FdExist(fd_manager, udp_manager.sessions["c1"].fd64)

\* C33: when the connect of on_accept fails with an error other than the
\* in-progress indication, both sockets are closed and no connection record, no
\* handle and no token is made; a record with remote_connecting = FALSE is made
\* only after a connect that succeeded.
C33_ConnectErrorMakesNoRecord ==
    (last.op = "on_accept" /\ last.res = "connect_error") =>
        /\ last.fd64 \notin DOMAIN tcp_manager.connections
        /\ ~FdExist(fd_manager, last.fd64)
        /\ ~HasToken(token_manager, last.fd64)

\* C34: when a readable or a writable event on the remote handle finds the
\* connect complete with SO_ERROR = 0, the handler clears remote_connecting and
\* re-arms the remote token without WRITABLE (and runs the local readable
\* pass): after it the remote socket no longer asks for writability.  With a
\* non-zero SO_ERROR the connection is closed and no record is left for it.
C34_CompletionDropsWritable ==
    /\ \A k \in DOMAIN tcp_manager.connections :
          LET conn == tcp_manager.connections[k]
              remote_fd == FdToFd(fd_manager, conn.remote.fd64)
          IN  (last.res = "connected" /\ last.op \in {"on_read", "on_write"}
                  /\ last.fd64 = conn.remote.fd64 /\ remote_fd \in DOMAIN poll)
                  => /\ ~conn.remote_connecting
                     /\ "W" \notin poll[remote_fd].interest
    /\ (last.res = "connect_failed" /\ last.op \in {"on_read", "on_write"})
          => GetConnectionByAnyFd(tcp_manager, last.fd64) = NoKey

\* C35: when on_read ends with bytes still to send to the peer, the peer's token
\* is re-armed with READABLE|WRITABLE and the side that read keeps its own
\* registration: after it the peer socket asks for writability and the reader
\* socket still asks for readability.
C35_PendingRearmsThePeer ==
    \A k \in DOMAIN tcp_manager.connections :
        LET conn == tcp_manager.connections[k]
            fd == FdToFd(fd_manager, last.fd64)
            other_fd == FdToFd(fd_manager, Peer(conn, last.fd64))
        IN  (/\ last.op = "on_read"
             /\ last.res \in {"pending", "send_wouldblock"}
             /\ last.fd64 \in {conn.local.fd64, conn.remote.fd64}
             /\ fd \in DOMAIN poll /\ other_fd \in DOMAIN poll)
                => /\ poll[other_fd].interest = {"R", "W"}
                   /\ "R" \in poll[fd].interest

\* C36: every handle made during accept or session creation is closed once: a
\* failed register in on_accept or on_datagram leaves no live handle and no
\* token of the attempt and no open outbound socket, and no descriptor is
\* closed while the registry still reports its handle live.
C36_RegisterFailureUnwinds ==
    /\ \A fd64 \in DOMAIN fd_manager.fd64_to_fd : fd_manager.fd64_to_fd[fd64] \in os_fds
    /\ last.res \in {"register_local_failed", "register_remote_failed", "register_failed"}
          => ~FdExist(fd_manager, last.fd64) /\ ~HasToken(token_manager, last.fd64)

(***************************************************************************)
(* EventLoop::shutdown (src/src/event/mod.rs:328-365), which run calls     *)
(* when `while self.signal_handler.is_running()` ends the loop: the signal *)
(* thread has stored false into the flag (src/src/event/signals.rs:61-65). *)
(***************************************************************************)
\* The descriptors shutdown calls libc::close on: to_fd of the key and of the
\* remote handle of every record of the TCP table, to_fd of the handle of every
\* session of the UDP table, where to_fd is Some.
ShutdownCloses ==
    {FdToFd(fd_manager, fd64) :
        fd64 \in DOMAIN tcp_manager.connections
                 \cup {tcp_manager.connections[k].remote.fd64 :
                          k \in DOMAIN tcp_manager.connections}
                 \cup {udp_manager.sessions[a].fd64 : a \in DOMAIN udp_manager.sessions}}
        \ {NoFd}

Shutdown ==
    /\ phase = "running"
    /\ Becomes(Ret([State EXCEPT !.os_fds = @ \ ShutdownCloses,
                                 !.poll = DelAll(@, ShutdownCloses),
                                 !.closed_registered = ShutdownCloses \cap DOMAIN poll,
                                 !.phase = "shutdown"],
                   "shutdown", NoKey, "ok"))
    /\ Frame

SpecShutdown ==
    /\ Init
    /\ [][\/ RegisterListenSocket
          \/ TcpAccept(BudgetBoth)
          \/ UdpDatagram(BudgetBoth)
          \/ TcpReadable(BudgetBoth)
          \/ UdpReadable(BudgetBoth)
          \/ TcpWritable(BudgetBoth)
          \/ ClearTick
          \/ Tick
          \/ Shutdown]_vars

\* C31: once the running flag is cleared the loop ends and shutdown runs; after
\* shutdown the descriptor of every handle that was still live in the registry
\* is closed: no socket of a flow, in a table or not, stays open.
C31_ShutdownClosesEveryHandle ==
    phase = "shutdown" =>
        \A fd64 \in DOMAIN fd_manager.fd64_to_fd :
            fd_manager.fd64_to_fd[fd64] \in {TcpListenFd, UdpListenFd}
                \/ fd_manager.fd64_to_fd[fd64] \notin os_fds

(***************************************************************************)
(* The family of the outbound socket and the address it is connected to:   *)
(* TcpHandler::get_remote_addr_for_connect, get_remote_addr_family and     *)
(* on_accept (src/src/event/tcp.rs:125-163, 217-266), UdpHandler::         *)
(* on_datagram (src/src/event/udp.rs:250-264) with Address::               *)
(* new_connected_udp_fd (src/src/types/address.rs:202-234).  fwd_type is   *)
(* set from --4to6 and --6to4 whatever the remote address is               *)
(* (src/src/main.rs:453-459).                                              *)
(***************************************************************************)
AF_INET == 2
AF_INET6 == 10
ADDR_TYPE_IPV4 == 4
ADDR_TYPE_IPV6 == 6

\* get_type: the tag of the address
GetType(a) == IF a.family = "V4" THEN ADDR_TYPE_IPV4 ELSE ADDR_TYPE_IPV6

\* to_sockaddr_storage: sin_family of the sockaddr that connect is given
SockaddrFamily(a) == IF a.family = "V4" THEN AF_INET ELSE AF_INET6

\* get_remote_addr_for_connect, the same in both handlers: the translated
\* address, the original one when the translation gives None
GetRemoteAddrForConnect(fwd_type, remote_addr) ==
    IF fwd_type = "FwdType4to6"
    THEN IF ToIpv4MappedIpv6(remote_addr).family # "None"
         THEN ToIpv4MappedIpv6(remote_addr) ELSE remote_addr
    ELSE IF fwd_type = "FwdType6to4"
    THEN IF FromIpv4MappedIpv6(remote_addr).family # "None"
         THEN FromIpv4MappedIpv6(remote_addr) ELSE remote_addr
    ELSE remote_addr

\* TcpHandler::get_remote_addr_family: the first argument of socket() in on_accept
GetRemoteAddrFamily(fwd_type, remote_addr) ==
    IF fwd_type = "FwdType4to6" THEN AF_INET6
    ELSE IF fwd_type = "FwdType6to4" THEN AF_INET
    ELSE IF GetType(remote_addr) = 4 THEN AF_INET ELSE AF_INET6

\* new_connected_udp_fd: libc::socket(self.get_type() as libc::c_int, SOCK_DGRAM, ..)
NewConnectedUdpFdFamily(a) == GetType(a)

\* The outbound sockets of both handlers for the configured remote addr.self,
\* under each forwarding mode: the family given to socket() and the address
\* given to connect().
SpecConnect ==
    /\ InitAddr
    /\ [][\/ \E fwd_type \in {"Normal", "FwdType4to6", "FwdType6to4"} :
                /\ addr.op = "new"
                /\ AddrCalls("on_accept",
                             [fwd_type |-> fwd_type,
                              socket |-> GetRemoteAddrFamily(fwd_type, addr.self),
                              connect |-> GetRemoteAddrForConnect(fwd_type, addr.self)])
          \/ \E fwd_type \in {"Normal", "FwdType4to6", "FwdType6to4"} :
                /\ addr.op = "new"
                /\ LET remote_addr_for_connect ==
                           GetRemoteAddrForConnect(fwd_type, addr.self)
                   IN  AddrCalls("on_datagram",
                                 [fwd_type |-> fwd_type,
                                  socket |-> NewConnectedUdpFdFamily(remote_addr_for_connect),
                                  connect |-> remote_addr_for_connect])]_vars

\* C37: in every forwarding mode and for every remote address, IPv4, v4-mapped
\* IPv6 or other IPv6, the family of the outbound TCP socket is the family of
\* the address given to connect, also when the mapping is not possible and the
\* original remote is used.
C37_TcpSocketFamilyIsConnectFamily ==
    addr.op = "on_accept" => addr.returned.socket = SockaddrFamily(addr.returned.connect)

\* C38: the outbound socket of a new UDP session is made with AF_INET for an
\* IPv4 and AF_INET6 for an IPv6 (possibly translated) remote address and is
\* connected to that address: socket() is never given the tag 4 or 6.
C38_UdpSocketFamilyIsOsFamily ==
    addr.op = "on_datagram" =>
        /\ addr.returned.socket = SockaddrFamily(addr.returned.connect)
        /\ addr.returned.socket \notin {ADDR_TYPE_IPV4, ADDR_TYPE_IPV6}

(***************************************************************************)
(* UdpSessionManager under concurrent callers (src/src/manager/mod.rs:     *)
(* 191-389).  The manager is shared as Arc<Self>; sessions, fd64_to_addr   *)
(* and lru each sit behind their own RwLock.  A call is a sequence of      *)
(* steps, one per lock it takes while holding the ones it has: a caller at *)
(* "get_sessions" holds fd64_to_addr for reading, a caller at              *)
(* "write_index" holds sessions for writing.  lru is only ever taken by a  *)
(* caller that holds sessions for writing.  A lock is granted for reading  *)
(* when no caller holds it for writing, for writing when no caller holds   *)
(* it at all.                                                              *)
(***************************************************************************)
\* erase, lines 286-316: the index entries of the address, the session, its LRU
\* entry
UdpErase(um, address) ==
    [um EXCEPT !.fd64_to_addr = DelAll(@, {fd \in DOMAIN @ : @[fd] = address}),
               !.sessions = Del(@, address),
               !.lru = Del(@, address)]

UdpFrame ==
    UNCHANGED <<fd_manager, token_manager, tcp_manager, poll, os_fds, config, now,
                last_clear_time, listen_socket, phase, flow, faults, closed_registered,
                registry_log, timer, collector, addr>>

\* get_session_by_fd64, lines 269-276
GetSessionByFd64Steps(t) ==
    \/ \* fd64_to_addr.read(), fd64_to_addr.get(fd64)
       /\ callers[t].pc = "idle"
       /\ \E fd64 \in 1..MaxFd64Loop :
             IF fd64 \in DOMAIN udp_manager.fd64_to_addr
             THEN /\ callers' = [callers EXCEPT ![t] =
                        [op |-> "get_session_by_fd64", pc |-> "get_sessions",
                         fd64 |-> fd64, address |-> udp_manager.fd64_to_addr[fd64]]]
                  /\ UNCHANGED last
             ELSE /\ last' = [op |-> "get_session_by_fd64", fd64 |-> fd64, res |-> "none"]
                  /\ UNCHANGED callers
       /\ UNCHANGED <<udp_manager, stats>>
       /\ UdpFrame
    \/ \* self.sessions.read() with fd64_to_addr still held, get(addr), both released
       /\ callers[t].pc = "get_sessions"
       /\ \A u \in Threads : callers[u].pc # "write_index"
       /\ last' = [op |-> "get_session_by_fd64", fd64 |-> callers[t].fd64,
                   res |-> IF callers[t].address \in DOMAIN udp_manager.sessions
                           THEN "some" ELSE "none"]
       /\ Returns(t)
       /\ UNCHANGED <<udp_manager, stats>>
       /\ UdpFrame

\* new_session, lines 233-261, and erase, lines 279-320
WriterSteps(t) ==
    \/ \* self.sessions.write()
       /\ callers[t].pc = "idle"
       /\ \A u \in Threads : callers[u].pc # "write_index"
       /\ \E op \in {"new_session", "erase"}, address \in Clients, fd64 \in 1..MaxFd64Loop :
             /\ op = "erase" => (fd64 = 1 /\ stats.udp_sessions > 0 - MaxCalls)
             /\ callers' = [callers EXCEPT ![t] =
                   [op |-> op, pc |-> "write_index", fd64 |-> fd64, address |-> address]]
       /\ UNCHANGED <<udp_manager, stats, last>>
       /\ UdpFrame
    \/ \* self.fd64_to_addr.write() and self.lru.write() with sessions still held,
       \* the body of the call, all three released
       /\ callers[t].pc = "write_index"
       /\ \A u \in Threads : callers[u].pc # "get_sessions"
       /\ IF callers[t].op = "new_session"
          THEN /\ udp_manager' = UdpNewSession(udp_manager, callers[t].address,
                                               callers[t].fd64, ListenFd64, now)
               /\ UNCHANGED stats
          ELSE /\ udp_manager' = UdpErase(udp_manager, callers[t].address)
               /\ stats' = [stats EXCEPT !.udp_sessions = @ - 1]
       /\ last' = [op |-> callers[t].op, fd64 |-> callers[t].fd64, res |-> "ok"]
       /\ Returns(t)
       /\ UdpFrame

SpecUdpLocks ==
    /\ Init
    /\ [][\/ \E t \in Threads : GetSessionByFd64Steps(t)
          \/ \E t \in Threads : WriterSteps(t)]_vars

\* A call of t is under way and the lock it asks for next is held by another
\* caller.
Blocked(t) ==
    \/ callers[t].pc = "get_sessions" /\ \E u \in Threads : callers[u].pc = "write_index"
    \/ callers[t].pc = "write_index" /\ \E u \in Threads : callers[u].pc = "get_sessions"

\* C39: the session table is deadlock-free under concurrent use: a reader in
\* get_session_by_fd64 and a writer in new_session or erase both complete,
\* every operation taking the sessions lock and the fd64_to_addr lock in one
\* order: the calls under way are never all blocked on each other.
C39_CallsComplete ==
    (\E t \in Threads : callers[t].pc # "idle")
        => \E t \in Threads : callers[t].pc # "idle" /\ ~Blocked(t)

=============================================================================
